---- MODULE Spec2Model ----
(***************************************************************************)
(* A model of the rowing results data-entry application:                    *)
(*   - utils/helpers.py          parse_time_input, OverlapAnalyzer          *)
(*   - gui/tabs/d1_schools_tab.py Season, OverlapAnalyzer, school dialogs   *)
(*   - database/manager.py       DatabaseManager (schools, caches, race     *)
(*                               hierarchy, conference affiliations,        *)
(*                               school participations)                     *)
(*   - gui/tabs/entries_results_tab.py  _submit_results                     *)
(*   - database_initializer.py   the schema (keys, UNIQUE, ON DELETE)       *)
(*                                                                         *)
(* Text is modelled as sequences of one-character strings, dates as day     *)
(* numbers (the program stores ISO yyyy-mm-dd text, whose string order is   *)
(* the date order), SQL NULL as the value None.                             *)
(***************************************************************************)
EXTENDS Integers, Sequences, FiniteSets, TLC

VARIABLES
    \* ---- parse_time_input ----
    text,               \* the input string handed to parse_time_input
    parsed,             \* its outcome: NotParsed, ValueError or a time
    \* ---- OverlapAnalyzer ----
    new_season,         \* analyze_overlap's first argument
    existing_season,    \* analyze_overlap's second argument
    overlap_tab,        \* result of the copy in gui/tabs/d1_schools_tab.py
    overlap_helpers,    \* result of the copy in utils/helpers.py
    \* ---- the database as the application's connection sees it ----
    schools,            \* table schools: rows [school_id, name, crr_name]
    teams,              \* table teams: rows [team_id, school_id, category]
    conference_affiliations, \* rows [affiliation_id, team_id, conference, start_date, end_date]
    school_participations,   \* rows [participation_id, school_id, start_year, end_year, flags]
    regattas,           \* table regattas: rows [regatta_id, start_date]
    events,             \* table events: rows [event_id, regatta_id, category, scheduled_at]
    entries,            \* table entries: rows [entry_id, event_id, team_id, conference_at_time]
    results,            \* table results: rows [result_id, entry_id, position, elapsed_sec, margin_sec]
    seq,                \* sqlite_sequence: the last AUTOINCREMENT id per table
    committed,          \* the tables as of the last COMMIT
    in_transaction,     \* whether the connection has an open transaction
    \* ---- DatabaseManager's in-memory state ----
    school_cache,       \* school_id -> School
    crr_name_to_id_cache, \* crr_name -> school_id
    \* ---- control and history ----
    pc,                 \* the statement a running delete_event / delete_regatta is at
    op                  \* the last handler run: its name, arguments, outcome, pre-state

parserVars == <<text, parsed>>
overlapVars == <<new_season, existing_season, overlap_tab, overlap_helpers>>
tableVars == <<schools, teams, conference_affiliations, school_participations,
               regattas, events, entries, results, seq>>
dbVars == <<schools, teams, conference_affiliations, school_participations,
            regattas, events, entries, results, seq, committed, in_transaction>>
cacheVars == <<school_cache, crr_name_to_id_cache>>
vars == <<text, parsed, new_season, existing_season, overlap_tab, overlap_helpers,
          schools, teams, conference_affiliations, school_participations,
          regattas, events, entries, results, seq, committed, in_transaction,
          school_cache, crr_name_to_id_cache, pc, op>>

\* SQL NULL / Python None in a numeric field (a year, a date, an id): a value
\* no year, date or id takes.  Every use tests for it before comparing.
None == -1

(***************************************************************************)
(* Strings                                                                  *)
(***************************************************************************)
Digits == {"0", "1", "2", "3", "4", "5", "6", "7", "8", "9"}

\* str.isdigit on one character.
IsDigit(c) == c \in Digits

\* int() of one decimal digit.
DigitVal(c) ==
    CASE c = "0" -> 0 [] c = "1" -> 1 [] c = "2" -> 2 [] c = "3" -> 3
      [] c = "4" -> 4 [] c = "5" -> 5 [] c = "6" -> 6 [] c = "7" -> 7
      [] c = "8" -> 8 [] c = "9" -> 9

\* The value of a string of decimal digits (0 for the empty string).
RECURSIVE DecVal(_)
DecVal(s) ==
    IF s = <<>> THEN 0
    ELSE DecVal(SubSeq(s, 1, Len(s) - 1)) * 10 + DigitVal(s[Len(s)])

AllDigits(s) == \A i \in 1..Len(s) : IsDigit(s[i])

\* str.strip(): leading and trailing whitespace removed.
RECURSIVE Strip(_)
Strip(s) ==
    IF s = <<>> THEN s
    ELSE IF s[1] = " " THEN Strip(Tail(s))
    ELSE IF s[Len(s)] = " " THEN Strip(SubSeq(s, 1, Len(s) - 1))
    ELSE s

\* c in s
Contains(s, c) == \E i \in 1..Len(s) : s[i] = c

\* The index of the first c in s (Len(s) + 1 when there is none).
FirstIndex(s, c) ==
    IF Contains(s, c) THEN CHOOSE i \in 1..Len(s) : s[i] = c /\ \A j \in 1..(i - 1) : s[j] # c
    ELSE Len(s) + 1

\* s.split(c, 1)[0] and the rest after the first c.
Before(s, c) == SubSeq(s, 1, FirstIndex(s, c) - 1)
After(s, c) == SubSeq(s, FirstIndex(s, c) + 1, Len(s))

\* "".join(filter(str.isdigit, s))
RECURSIVE FilterDigits(_)
FilterDigits(s) ==
    IF s = <<>> THEN <<>>
    ELSE IF IsDigit(s[1]) THEN <<s[1]>> \o FilterDigits(Tail(s))
    ELSE FilterDigits(Tail(s))

\* s.ljust(n, '0')
RECURSIVE Ljust0(_, _)
Ljust0(s, n) == IF Len(s) >= n THEN s ELSE Ljust0(s \o <<"0">>, n)

\* int(s): surrounding whitespace ignored, an optional sign, then digits;
\* anything else raises ValueError.  The result is [ok, val].
IntParse(s) ==
    LET t == Strip(s)
        neg == t # <<>> /\ t[1] = "-"
        body == IF neg THEN Tail(t) ELSE t
    IN IF body # <<>> /\ AllDigits(body)
       THEN [ok |-> TRUE, val |-> IF neg THEN 0 - DecVal(body) ELSE DecVal(body)]
       ELSE [ok |-> FALSE, val |-> 0]

\* `int(s) if s else 0`
IntOrZero(s) == IF s = <<>> THEN [ok |-> TRUE, val |-> 0] ELSE IntParse(s)

(***************************************************************************)
(* parse_time_input                                                         *)
(***************************************************************************)
NotParsed == [kind |-> "none", minutes |-> 0, seconds |-> 0, milliseconds |-> 0]
ValueError == [kind |-> "ValueError", minutes |-> 0, seconds |-> 0, milliseconds |-> 0]
Time(m, s, ms) == [kind |-> "time", minutes |-> m, seconds |-> s, milliseconds |-> ms]

\* ms_str.ljust(3, '0')[:3] then int()
MsParse(ms_str) == IntParse(SubSeq(Ljust0(ms_str, 3), 1, 3))

\* The formatted branch: the try block of lines 235-266.  ValueError here
\* stands for "an exception the except clause of line 267 swallows".
ParseFormatted(t) ==
    IF Contains(t, ":")
    THEN LET time_part == Before(t, ":")
             sec_part == Before(After(t, ":"), ":")      \* rest[0]
             minutes == IntOrZero(time_part)
             secs == IF Contains(sec_part, ".")
                     THEN IntOrZero(Before(sec_part, "."))
                     ELSE IntOrZero(sec_part)
             ms == IF Contains(sec_part, ".")
                   THEN MsParse(After(sec_part, "."))
                   ELSE [ok |-> TRUE, val |-> 0]
         IN IF ~minutes.ok \/ ~secs.ok \/ ~ms.ok THEN ValueError
            ELSE IF secs.val >= 60 THEN ValueError
            ELSE Time(minutes.val, secs.val, ms.val)
    ELSE LET secs == IntOrZero(Before(t, "."))
             ms == MsParse(After(t, "."))
         IN IF ~secs.ok \/ ~ms.ok THEN ValueError
            ELSE IF secs.val >= 60 THEN ValueError
            ELSE Time(0, secs.val, ms.val)

\* A mutant of ParseDigits: the extra leading digits are added to the
\* minutes without being scaled by ten.
ParseDigitsUnscaled(t) ==
    LET digits == FilterDigits(t)
        n == Len(digits)
    IN IF digits = <<>> THEN ValueError
       ELSE LET d == IF n <= 6 THEN Ljust0(digits, 6) ELSE SubSeq(digits, n - 5, n)
                minutes == IF n <= 6 THEN DecVal(<<d[1]>>)
                           ELSE DecVal(SubSeq(digits, 1, n - 6)) + DecVal(<<d[1]>>)
                seconds == DecVal(SubSeq(d, 2, 3))
            IN IF seconds >= 60 THEN ValueError
               ELSE Time(minutes, seconds, DecVal(SubSeq(d, 4, 6)))

\* The digit branch: lines 271-300.
ParseDigits(t) ==
    LET digits == FilterDigits(t)
        n == Len(digits)
    IN IF digits = <<>> THEN ValueError                         \* "No digits found"
       ELSE IF n <= 6
       THEN LET d == Ljust0(digits, 6)
                seconds == DecVal(SubSeq(d, 2, 3))
            IN IF seconds >= 60 THEN ValueError
               ELSE Time(DecVal(<<d[1]>>), seconds, DecVal(SubSeq(d, 4, 6)))
       ELSE LET extra_digits == SubSeq(digits, 1, n - 6)
                core_digits == SubSeq(digits, n - 5, n)
                tens_of_minutes == DecVal(extra_digits)
                single_minutes == DecVal(<<core_digits[1]>>)
                seconds == DecVal(SubSeq(core_digits, 2, 3))
            IN IF seconds >= 60 THEN ValueError
               ELSE Time(tens_of_minutes * 10 + single_minutes, seconds,
                         DecVal(SubSeq(core_digits, 4, 6)))

parse_time_input(input) ==
    LET t == Strip(input)
    IN IF Contains(t, ":") \/ Contains(t, ".")
       THEN LET f == ParseFormatted(t)
            IN IF f.kind = "time" THEN f ELSE ParseDigits(t)
       ELSE ParseDigits(t)

(***************************************************************************)
(* Idle values: what a specification leaves the state of the other parts at *)
(***************************************************************************)
NoSeason == [start_year |-> 0, end_year |-> None]
NoOp == [name |-> "none"]
EmptyTables ==
    [schools |-> {}, teams |-> {}, conference_affiliations |-> {},
     school_participations |-> {}, regattas |-> {}, events |-> {},
     entries |-> {}, results |-> {},
     seq |-> [schools |-> 0, teams |-> 0, regattas |-> 0, events |-> 0, entries |-> 0,
              results |-> 0, school_participations |-> 0,
              conference_affiliations |-> 0]]

\* The tables of the connection's view, as one record.
Tables ==
    [schools |-> schools, teams |-> teams,
     conference_affiliations |-> conference_affiliations,
     school_participations |-> school_participations, regattas |-> regattas,
     events |-> events, entries |-> entries, results |-> results, seq |-> seq]

ParserIdle == text = <<>> /\ parsed = NotParsed
OverlapIdle ==
    /\ new_season = NoSeason /\ existing_season = NoSeason
    /\ overlap_tab = "" /\ overlap_helpers = ""
TablesAre(t) ==
    /\ schools = t.schools /\ teams = t.teams
    /\ conference_affiliations = t.conference_affiliations
    /\ school_participations = t.school_participations
    /\ regattas = t.regattas /\ events = t.events
    /\ entries = t.entries /\ results = t.results /\ seq = t.seq
DbIdle == TablesAre(EmptyTables) /\ committed = EmptyTables /\ in_transaction = FALSE
CacheIdle == school_cache = <<>> /\ crr_name_to_id_cache = <<>>
ControlIdle == pc = "idle" /\ op = NoOp

(***************************************************************************)
(* Specification SpecParse: parse_time_input applied to bounded inputs      *)
(***************************************************************************)
\* Longest input over the full alphabet, and longest all-digit input.
MaxLen == 4
MaxDigits == 8

InputChars == {"0", "1", "6", ":", ".", "-", " ", "a"}
DigitChars == {"0", "5", "6"}

Str(S, n) == UNION {[1..k -> S] : k \in 0..n}

\* The docstring's examples (lines 224-229) and other inputs of interest.
Examples ==
    { <<"7", "0", "4">>, <<"7">>, <<"1", "1", "5", "0", "1", "2", "3">>,
      <<"1", "1", "1", "5", "0", "1", "2", "3">>,
      <<"7", ":", "0", "4", ".", "1", "2", "3">>,
      <<"1", "2", ":", "6", "0">>, <<"7", ":", "7", "5">>,
      <<"-", "5", ":", "3", "0">>, <<"4", "0", "4", ".", "1", "2", "3">> }

TimeInputs == Str(InputChars, MaxLen) \cup Str(DigitChars, MaxDigits) \cup Examples

InitParse ==
    /\ text \in TimeInputs
    /\ parsed = NotParsed
    /\ OverlapIdle /\ DbIdle /\ CacheIdle /\ ControlIdle

\* A caller (TimeEntry._normalize, TimeEntry.get_seconds, time_to_seconds)
\* hands the text to parse_time_input.
ParseTimeInput ==
    /\ parsed = NotParsed
    /\ parsed' = parse_time_input(text)
    /\ UNCHANGED <<text, overlapVars, dbVars, cacheVars, pc, op>>

NextParse == ParseTimeInput

SpecParse == InitParse /\ [][NextParse]_vars

\* ---- C1 ----
\* The claim's reading of an all-digit input: right-pad with zeros to six
\* digits; the last three digits are the milliseconds, the two before them
\* the seconds, everything before those the minutes.
PadRight6(s) == IF Len(s) < 6 THEN s \o [i \in 1..(6 - Len(s)) |-> "0"] ELSE s
ReadByPosition(s) ==
    LET p == PadRight6(s)
        n == Len(p)
    IN Time(DecVal(SubSeq(p, 1, n - 5)), DecVal(SubSeq(p, n - 4, n - 3)),
            DecVal(SubSeq(p, n - 2, n)))

\* C1: for every input of one or more digits whose seconds, read by
\* position, are below 60, parse_time_input returns the time read by
\* position; "704" gives 7:04.000, "7" gives 7:00.000, "1150123" gives
\* 11:50.123 and "11150123" gives 111:50.123.
C1_DigitsReadByPosition ==
    parsed # NotParsed =>
        /\ (text # <<>> /\ AllDigits(text) /\ ReadByPosition(text).seconds < 60)
              => parsed = ReadByPosition(text)
        /\ text = <<"7", "0", "4">> => parsed = Time(7, 4, 0)
        /\ text = <<"7">> => parsed = Time(7, 0, 0)
        /\ text = <<"1", "1", "5", "0", "1", "2", "3">> => parsed = Time(11, 50, 123)
        /\ text = <<"1", "1", "1", "5", "0", "1", "2", "3">> => parsed = Time(111, 50, 123)

\* An eight-digit input has been parsed: its two extra digits are minutes.
C1_Witness ==
    /\ text = <<"1", "1", "1", "5", "0", "1", "2", "3">>
    /\ parsed = Time(111, 50, 123)

\* ---- C10 ----
\* C10 (as claimed): for every input, parse_time_input either raises
\* ValueError or returns minutes >= 0, seconds in 0..59 and milliseconds in
\* 0..999; an input without any digit always raises.
C10_ErrorOrValidTime ==
    parsed # NotParsed =>
        /\ \/ parsed = ValueError
           \/ /\ parsed.kind = "time"
              /\ parsed.minutes >= 0
              /\ parsed.seconds \in 0..59
              /\ parsed.milliseconds \in 0..999
        /\ FilterDigits(text) = <<>> => parsed = ValueError

\* ---- C11 ----
\* The claim's input form: minutes:seconds or minutes:seconds.fraction, each
\* field a run of digits (minutes and seconds not empty).
SecondsField(t) == Before(After(t, ":"), ".")
MinutesSecondsForm(t) ==
    /\ Contains(t, ":")
    /\ Before(t, ":") # <<>> /\ AllDigits(Before(t, ":"))
    /\ SecondsField(t) # <<>> /\ AllDigits(SecondsField(t))
    /\ AllDigits(After(After(t, ":"), "."))

\* C11 (as claimed): an input of the form minutes:seconds or
\* minutes:seconds.fraction whose seconds field is 60 or more is rejected
\* with ValueError; no time is returned for it.
C11_SecondsOver59Rejected ==
    parsed # NotParsed =>
        ((MinutesSecondsForm(text) /\ DecVal(SecondsField(text)) >= 60)
            => parsed = ValueError)

(***************************************************************************)
(* Season and OverlapAnalyzer.analyze_overlap (two copies in the source)    *)
(***************************************************************************)
\* The year pickers of AddSeasonDialog offer range(2000, 2051); the model
\* takes the first MaxYearSpan + 1 of those years.
BaseYear == 2000
MaxYearSpan == 4
Years == BaseYear..(BaseYear + MaxYearSpan)

\* The stand-in for "no end year" in analyze_overlap's comparisons.
FarFuture == 9999

Season(s, e) == [start_year |-> s, end_year |-> e]
is_current(season) == season.end_year = None

\* AddSeasonDialog._create_season accepts a season whose end year is
\* "current" or later than its start year.
WellFormed(season) == season.end_year = None \/ season.start_year < season.end_year
WellFormedSeasons ==
    {season \in {Season(s, e) : s \in Years, e \in Years \cup {None}} : WellFormed(season)}

\* A mutant of analyze_overlap_tab: the first adjacency rule (existing ends
\* in the year new starts) is missing.
analyze_overlap_no_adjacency(new, existing) ==
    LET new_end == IF new.end_year # None THEN new.end_year ELSE FarFuture
        existing_end == IF existing.end_year # None THEN existing.end_year ELSE FarFuture
    IN IF new.start_year = existing.start_year /\ new.end_year = existing.end_year
       THEN "EXACT_MATCH"
       ELSE IF new.end_year # None /\ existing.start_year = new.end_year
       THEN "NO_OVERLAP"
       ELSE IF existing.end_year # None /\ new.start_year > existing.end_year
       THEN "NO_OVERLAP"
       ELSE IF new.end_year # None /\ existing.start_year > new.end_year
       THEN "NO_OVERLAP"
       ELSE IF is_current(existing) /\ is_current(new)
               /\ new.start_year = existing.start_year + 1
       THEN "ADJACENT_CURRENT_SEASONS"
       ELSE IF is_current(existing) /\ ~is_current(new)
               /\ new.start_year = existing.start_year + 1
       THEN "ADJACENT_CURRENT_TO_FINITE"
       ELSE IF new.start_year <= existing.start_year /\ new_end >= existing_end
       THEN "NEW_CONTAINS_EXISTING"
       ELSE IF existing.start_year <= new.start_year /\ existing_end >= new_end
       THEN "EXISTING_CONTAINS_NEW"
       ELSE IF new.start_year < existing.start_year /\ new_end >= existing.start_year
       THEN "OVERLAP_START"
       ELSE IF new.start_year <= existing_end /\ new.start_year > existing.start_year
       THEN "OVERLAP_END"
       ELSE "NO_OVERLAP"

\* gui/tabs/d1_schools_tab.py, OverlapAnalyzer.analyze_overlap.
analyze_overlap_tab(new, existing) ==
    LET new_end == IF new.end_year # None THEN new.end_year ELSE FarFuture
        existing_end == IF existing.end_year # None THEN existing.end_year ELSE FarFuture
    IN IF new.start_year = existing.start_year /\ new.end_year = existing.end_year
       THEN "EXACT_MATCH"
       ELSE IF existing.end_year # None /\ new.start_year = existing.end_year
       THEN "NO_OVERLAP"
       ELSE IF new.end_year # None /\ existing.start_year = new.end_year
       THEN "NO_OVERLAP"
       ELSE IF existing.end_year # None /\ new.start_year > existing.end_year
       THEN "NO_OVERLAP"
       ELSE IF new.end_year # None /\ existing.start_year > new.end_year
       THEN "NO_OVERLAP"
       ELSE IF is_current(existing) /\ is_current(new)
               /\ new.start_year = existing.start_year + 1
       THEN "ADJACENT_CURRENT_SEASONS"
       ELSE IF is_current(existing) /\ ~is_current(new)
               /\ new.start_year = existing.start_year + 1
       THEN "ADJACENT_CURRENT_TO_FINITE"
       ELSE IF new.start_year <= existing.start_year /\ new_end >= existing_end
       THEN "NEW_CONTAINS_EXISTING"
       ELSE IF existing.start_year <= new.start_year /\ existing_end >= new_end
       THEN "EXISTING_CONTAINS_NEW"
       ELSE IF new.start_year < existing.start_year /\ new_end >= existing.start_year
       THEN "OVERLAP_START"
       ELSE IF new.start_year <= existing_end /\ new.start_year > existing.start_year
       THEN "OVERLAP_END"
       ELSE "NO_OVERLAP"

\* utils/helpers.py, OverlapAnalyzer.analyze_overlap: the same text.
analyze_overlap_helpers(new, existing) ==
    LET new_end == IF new.end_year # None THEN new.end_year ELSE FarFuture
        existing_end == IF existing.end_year # None THEN existing.end_year ELSE FarFuture
    IN IF new.start_year = existing.start_year /\ new.end_year = existing.end_year
       THEN "EXACT_MATCH"
       ELSE IF existing.end_year # None /\ new.start_year = existing.end_year
       THEN "NO_OVERLAP"
       ELSE IF new.end_year # None /\ existing.start_year = new.end_year
       THEN "NO_OVERLAP"
       ELSE IF existing.end_year # None /\ new.start_year > existing.end_year
       THEN "NO_OVERLAP"
       ELSE IF new.end_year # None /\ existing.start_year > new.end_year
       THEN "NO_OVERLAP"
       ELSE IF is_current(existing) /\ is_current(new)
               /\ new.start_year = existing.start_year + 1
       THEN "ADJACENT_CURRENT_SEASONS"
       ELSE IF is_current(existing) /\ ~is_current(new)
               /\ new.start_year = existing.start_year + 1
       THEN "ADJACENT_CURRENT_TO_FINITE"
       ELSE IF new.start_year <= existing.start_year /\ new_end >= existing_end
       THEN "NEW_CONTAINS_EXISTING"
       ELSE IF existing.start_year <= new.start_year /\ existing_end >= new_end
       THEN "EXISTING_CONTAINS_NEW"
       ELSE IF new.start_year < existing.start_year /\ new_end >= existing.start_year
       THEN "OVERLAP_START"
       ELSE IF new.start_year <= existing_end /\ new.start_year > existing.start_year
       THEN "OVERLAP_END"
       ELSE "NO_OVERLAP"

(***************************************************************************)
(* Specification SpecOverlap: analyze_overlap on pairs of seasons           *)
(***************************************************************************)
InitOverlap ==
    /\ new_season \in WellFormedSeasons
    /\ existing_season \in WellFormedSeasons
    /\ overlap_tab = "" /\ overlap_helpers = ""
    /\ ParserIdle /\ DbIdle /\ CacheIdle /\ ControlIdle

\* plan_overlap_resolution (either copy) classifies the pair.
AnalyzeOverlap ==
    /\ overlap_tab = ""
    /\ overlap_tab' = analyze_overlap_tab(new_season, existing_season)
    /\ overlap_helpers' = analyze_overlap_helpers(new_season, existing_season)
    /\ UNCHANGED <<new_season, existing_season, parserVars, dbVars, cacheVars, pc, op>>

NextOverlap == AnalyzeOverlap

SpecOverlap == InitOverlap /\ [][NextOverlap]_vars

\* ---- C2 ----
\* A season covers the academic years from its start year up to, not
\* including, its end year; all later years when it has no end year.
CoversYear(season, y) ==
    season.start_year <= y /\ (season.end_year = None \/ y < season.end_year)
ShareAcademicYear(a, b) == \E y \in Years : CoversYear(a, y) /\ CoversYear(b, y)

\* C2: for two well-formed seasons both copies of analyze_overlap return
\* NO_OVERLAP exactly when the seasons share no academic year; a season
\* ending in year X and one starting in year X give NO_OVERLAP.
C2_NoOverlapIffDisjoint ==
    overlap_tab # "" =>
        /\ (overlap_tab = "NO_OVERLAP") <=> ~ShareAcademicYear(new_season, existing_season)
        /\ (overlap_helpers = "NO_OVERLAP") <=> ~ShareAcademicYear(new_season, existing_season)
        /\ (existing_season.end_year # None /\ new_season.start_year = existing_season.end_year)
              => overlap_tab = "NO_OVERLAP" /\ overlap_helpers = "NO_OVERLAP"
        /\ (new_season.end_year # None /\ existing_season.start_year = new_season.end_year)
              => overlap_tab = "NO_OVERLAP" /\ overlap_helpers = "NO_OVERLAP"

\* The adjacent pair 2000-2001 (existing) and 2001-current (new) was analysed.
C2_Witness ==
    /\ existing_season = Season(BaseYear, BaseYear + 1)
    /\ new_season = Season(BaseYear + 1, None)
    /\ overlap_tab = "NO_OVERLAP" /\ overlap_helpers = "NO_OVERLAP"

(***************************************************************************)
(* The schema (database_initializer.py, create_tables) and SQL statements   *)
(* over a record t of tables.  PRAGMA foreign_keys = ON (manager.py:70), so *)
(* every ON DELETE CASCADE clause acts and every insert checks its parents. *)
(***************************************************************************)
SetTables(t) ==
    /\ schools' = t.schools /\ teams' = t.teams
    /\ conference_affiliations' = t.conference_affiliations
    /\ school_participations' = t.school_participations
    /\ regattas' = t.regattas /\ events' = t.events
    /\ entries' = t.entries /\ results' = t.results /\ seq' = t.seq

\* INTEGER PRIMARY KEY AUTOINCREMENT: one more than the table's
\* sqlite_sequence entry, which a rollback restores with the rest.
NextId(t, table) == t.seq[table] + 1
Bump(t, table) == [t EXCEPT !.seq[table] = @ + 1]

\* results.entry_id REFERENCES entries ON DELETE CASCADE
SqlDeleteEntries(t, rows) ==
    LET ids == {e.entry_id : e \in rows}
    IN [t EXCEPT !.entries = @ \ rows,
                 !.results = {r \in @ : r.entry_id \notin ids}]

\* entries.event_id REFERENCES events ON DELETE CASCADE
SqlDeleteEvents(t, rows) ==
    LET ids == {e.event_id : e \in rows}
        t1 == SqlDeleteEntries(t, {e \in t.entries : e.event_id \in ids})
    IN [t1 EXCEPT !.events = @ \ rows]

\* events.regatta_id REFERENCES regattas ON DELETE CASCADE
SqlDeleteRegattas(t, rows) ==
    LET ids == {r.regatta_id : r \in rows}
        t1 == SqlDeleteEvents(t, {e \in t.events : e.regatta_id \in ids})
    IN [t1 EXCEPT !.regattas = @ \ rows]

\* conference_affiliations.team_id and entries.team_id REFERENCES teams
\* ON DELETE CASCADE
SqlDeleteTeams(t, rows) ==
    LET ids == {x.team_id : x \in rows}
        t1 == SqlDeleteEntries(t, {e \in t.entries : e.team_id \in ids})
    IN [t1 EXCEPT !.teams = @ \ rows,
                  !.conference_affiliations = {a \in @ : a.team_id \notin ids}]

\* A mutant of SqlDeleteSchools: the teams of a deleted school stay (the
\* cascade of teams.school_id is not applied).
SqlDeleteSchoolsNoCascade(t, rows) ==
    LET ids == {x.school_id : x \in rows}
    IN [t EXCEPT !.schools = @ \ rows,
                 !.school_participations = {sp \in @ : sp.school_id \notin ids}]

\* teams.school_id and school_participations.school_id REFERENCES schools
\* ON DELETE CASCADE
SqlDeleteSchools(t, rows) ==
    LET ids == {x.school_id : x \in rows}
        t1 == SqlDeleteTeams(t, {x \in t.teams : x.school_id \in ids})
    IN [t1 EXCEPT !.schools = @ \ rows,
                  !.school_participations = {sp \in @ : sp.school_id \notin ids}]

\* A mutant of SchoolPostInitOk: any CRR name makes a School object.
SchoolPostInitSkipped(crr_name) == TRUE

\* School.__post_init__: a School object needs a non-blank CRR name.
SchoolPostInitOk(crr_name) == crr_name # <<>> /\ Strip(crr_name) # <<>>

School(id, name, crr_name) == [school_id |-> id, name |-> name, crr_name |-> crr_name]

\* crr_name TEXT NOT NULL UNIQUE
CrrNameTaken(t, crr_name, except_id) ==
    \E x \in t.schools : x.crr_name = crr_name /\ x.school_id # except_id

\* _initialize_school_caches / refresh_school_caches: both caches rebuilt
\* from the rows whose crr_name is not empty.
CachedRows(t) == {x \in t.schools : x.crr_name # <<>>}
SchoolCacheOf(t) ==
    [id \in {x.school_id : x \in CachedRows(t)} |->
        CHOOSE x \in CachedRows(t) : x.school_id = id]
CrrCacheOf(t) ==
    [n \in {x.crr_name : x \in CachedRows(t)} |->
        (CHOOSE x \in CachedRows(t) : x.crr_name = n).school_id]

\* crr_name_to_id_cache.get(key): None when the key is absent.
CacheGet(cache, key) == IF key \in DOMAIN cache THEN cache[key] ELSE None

\* The None a lookup of a School answers, as a record so that it compares
\* with School records.
NoSchool == [school_id |-> None, name |-> <<>>, crr_name |-> <<>>]

\* school_cache.get(school_id)
SchoolGet(cache, school_id) ==
    IF school_id \in DOMAIN cache THEN cache[school_id] ELSE NoSchool

\* get_school_by_crr_name with the caches given: the School, or None.
SchoolByCrrName(ids, cache, crr_name) ==
    LET school_id == CacheGet(ids, crr_name)
    IN IF school_id # None /\ school_id # 0
       THEN SchoolGet(cache, school_id) ELSE NoSchool

get_school_by_crr_name(crr_name) ==
    SchoolByCrrName(crr_name_to_id_cache, school_cache, crr_name)

(***************************************************************************)
(* Regattas, events, entries and results (manager.py).  Each operator is    *)
(* the statement the method runs; the actions below add the commit and the  *)
(* transaction state of the one sqlite3 connection.                         *)
(***************************************************************************)
Categories == {"W/OW", "M/HW"}

\* get_event_date falls back to '2024-01-01'; DefaultEventDate is the day
\* number that stands for it.
DefaultEventDate == 1

add_regatta(t, start_date) ==
    [Bump(t, "regattas") EXCEPT
        !.regattas = @ \cup {[regatta_id |-> NextId(t, "regattas"),
                              start_date |-> start_date]}]

add_event(t, regatta_id, category, scheduled_at) ==
    [Bump(t, "events") EXCEPT
        !.events = @ \cup {[event_id |-> NextId(t, "events"),
                            regatta_id |-> regatta_id, category |-> category,
                            scheduled_at |-> scheduled_at]}]

get_event_date(t, event_id) ==
    LET joined == {p \in t.events \X t.regattas :
                      p[1].event_id = event_id /\ p[1].regatta_id = p[2].regatta_id}
    IN IF joined = {} THEN DefaultEventDate
       ELSE LET p == CHOOSE q \in joined : TRUE
            IN IF p[1].scheduled_at # None THEN p[1].scheduled_at
               ELSE IF p[2].start_date # None THEN p[2].start_date
               ELSE DefaultEventDate

\* The affiliations the query of get_team_conference_at_date selects.
AffiliationsAtDate(t, team_id, event_date) ==
    {a \in t.conference_affiliations :
        /\ a.team_id = team_id
        /\ a.start_date <= event_date
        /\ (a.end_date = None \/ a.end_date > event_date)}

\* ORDER BY start_date DESC LIMIT 1: the set of answers the query can give
\* (more than one only when two selected rows start on the same day).
get_team_conference_at_date(t, team_id, event_date) ==
    LET sel == AffiliationsAtDate(t, team_id, event_date)
    IN IF sel = {} THEN {"Unknown"}
       ELSE {a.conference : a \in {b \in sel : \A c \in sel : c.start_date <= b.start_date}}

\* The INSERT of add_entry, with the conference the lookup answered.
InsertEntry(t, event_id, team_id, conference_at_time) ==
    [Bump(t, "entries") EXCEPT
        !.entries = @ \cup {[entry_id |-> NextId(t, "entries"),
                             event_id |-> event_id, team_id |-> team_id,
                             conference_at_time |-> conference_at_time]}]

add_entry(t, event_id, team_id) ==
    LET event_date == get_event_date(t, event_id)
        answers == get_team_conference_at_date(t, team_id, event_date)
    IN InsertEntry(t, event_id, team_id, CHOOSE c \in answers : TRUE)

add_result(t, entry_id, position, elapsed_sec, margin_sec) ==
    [Bump(t, "results") EXCEPT
        !.results = @ \cup {[result_id |-> NextId(t, "results"),
                             entry_id |-> entry_id, position |-> position,
                             elapsed_sec |-> elapsed_sec, margin_sec |-> margin_sec]}]

\* DELETE FROM results WHERE entry_id IN (SELECT entry_id FROM entries
\* WHERE event_id = ?)
delete_event_results(t, event_id) ==
    LET ids == {e.entry_id : e \in {x \in t.entries : x.event_id = event_id}}
    IN [t EXCEPT !.results = {r \in @ : r.entry_id \notin ids}]

\* A mutant of delete_event_entries: the WHERE clause is missing.
delete_event_entries_all(t, event_id) == SqlDeleteEntries(t, t.entries)

\* DELETE FROM entries WHERE event_id = ?
delete_event_entries(t, event_id) ==
    SqlDeleteEntries(t, {e \in t.entries : e.event_id = event_id})

\* DELETE FROM events WHERE event_id = ?
delete_event_row(t, event_id) ==
    SqlDeleteEvents(t, {e \in t.events : e.event_id = event_id})

\* The four statements of delete_regatta.
delete_regatta_results(t, regatta_id) ==
    LET evs == {e.event_id : e \in {x \in t.events : x.regatta_id = regatta_id}}
        ids == {e.entry_id : e \in {x \in t.entries : x.event_id \in evs}}
    IN [t EXCEPT !.results = {r \in @ : r.entry_id \notin ids}]

delete_regatta_entries(t, regatta_id) ==
    LET evs == {e.event_id : e \in {x \in t.events : x.regatta_id = regatta_id}}
    IN SqlDeleteEntries(t, {e \in t.entries : e.event_id \in evs})

delete_regatta_events(t, regatta_id) ==
    SqlDeleteEvents(t, {e \in t.events : e.regatta_id = regatta_id})

delete_regatta_row(t, regatta_id) ==
    SqlDeleteRegattas(t, {r \in t.regattas : r.regatta_id = regatta_id})

(***************************************************************************)
(* _submit_results (entries_results_tab.py).  A row of the form is a school *)
(* name and a time in seconds (None when the time box is empty).            *)
(***************************************************************************)
\* get_teams_for_category_at_date is called but defined nowhere in the
\* repository; it is taken to answer as get_teams_for_category does:
\* the (team_id, crr_name) of every team of the category.
get_teams_for_category_at_date(t, category) ==
    {<<x.team_id, sc.crr_name>> : <<x, sc>> \in
        {p \in t.teams \X t.schools :
            p[1].category = category /\ p[1].school_id = p[2].school_id}}

\* The loop over teams: the team of the school, None when there is none.
TeamIdOf(t, category, school) ==
    LET found == {p \in get_teams_for_category_at_date(t, category) : p[2] = school}
    IN IF found = {} THEN None ELSE (CHOOSE p \in found : TRUE)[1]

\* The entries collected from the form: rows with a school, with the
\* position of the row in the form.
RECURSIVE CollectEntries(_, _)
CollectEntries(rows, i) ==
    IF i > Len(rows) THEN <<>>
    ELSE IF rows[i].school = <<>> THEN CollectEntries(rows, i + 1)
    ELSE <<[position |-> i, school |-> rows[i].school, time_seconds |-> rows[i].time]>>
            \o CollectEntries(rows, i + 1)

TimesOf(collected) ==
    SelectSeq(collected, LAMBDA e : e.time_seconds # None)

\* The checks before the database is touched; "ok" when all pass.
ValidateEntries(choices, collected) ==
    LET timed == TimesOf(collected)
    IN IF \E i \in 1..Len(collected) : collected[i].school \notin choices
         THEN "invalid school"
       ELSE IF collected = <<>> THEN "no school"
       ELSE IF \E i, j \in 1..Len(collected) :
                  i # j /\ collected[i].school = collected[j].school
         THEN "duplicate schools"
       ELSE IF \E i \in 2..Len(timed) : timed[i].time_seconds < timed[i-1].time_seconds
         THEN "time order"
       ELSE "ok"

\* A mutant of FastestTime: the margins are taken from time 0, not from the
\* fastest time entered.
FastestTimeZero(collected) == 0

\* min(times_with_values), 0 when no entry has a time.
FastestTime(collected) ==
    LET timed == TimesOf(collected)
    IN IF timed = <<>> THEN 0
       ELSE CHOOSE m \in {timed[i].time_seconds : i \in 1..Len(timed)} :
              \A i \in 1..Len(timed) : m <= timed[i].time_seconds

\* A mutant of SubmitEntry: the result is stored under the id of the first
\* entry of the event, not the id add_entry returned.
SubmitEntryFirstId(t, event_id, team_id, entry_data, fastest_time) ==
    LET t1 == add_entry(t, event_id, team_id)
        mine == {e.entry_id : e \in {x \in t1.entries : x.event_id = event_id}}
        entry_id == CHOOSE m \in mine : \A o \in mine : m <= o
    IN IF entry_data.time_seconds # None
       THEN add_result(t1, entry_id, entry_data.position, entry_data.time_seconds,
                       entry_data.time_seconds - fastest_time)
       ELSE t1

\* add_entry, then add_result when the entry has a time.
SubmitEntry(t, event_id, team_id, entry_data, fastest_time) ==
    LET t1 == add_entry(t, event_id, team_id)
        entry_id == t1.seq.entries
    IN IF entry_data.time_seconds # None
       THEN add_result(t1, entry_id, entry_data.position, entry_data.time_seconds,
                       entry_data.time_seconds - fastest_time)
       ELSE t1

\* The loop "for entry_data in entries".  s is the connection: the tables it
\* sees, the last committed tables and whether a transaction is open.  The
\* loop stops at the first entry whose event or team is not found; nothing
\* is rolled back.  add_entry and add_result commit.
RECURSIVE SubmitEntries(_, _, _, _, _)
SubmitEntries(s, event_id, collected, i, fastest_time) ==
    IF i > Len(collected) THEN [s EXCEPT !.outcome = "ok"]
    ELSE LET ev == {e \in s.t.events : e.event_id = event_id}
         IN IF ev = {} THEN [s EXCEPT !.outcome = "error"]
            ELSE LET team_id == TeamIdOf(s.t, (CHOOSE e \in ev : TRUE).category,
                                         collected[i].school)
                 IN IF team_id = None THEN [s EXCEPT !.outcome = "error"]
                    ELSE LET t1 == SubmitEntry(s.t, event_id, team_id,
                                               collected[i], fastest_time)
                         IN SubmitEntries([t |-> t1, committed |-> t1,
                                           in_transaction |-> FALSE,
                                           outcome |-> "running"],
                                          event_id, collected, i + 1, fastest_time)

\* The try block: the two DELETE statements open a transaction, then the loop.
SubmitToDatabase(t, cm, event_id, collected) ==
    LET t1 == delete_event_entries(delete_event_results(t, event_id), event_id)
    IN SubmitEntries([t |-> t1, committed |-> cm, in_transaction |-> TRUE,
                      outcome |-> "running"],
                     event_id, collected, 1, FastestTime(collected))

(***************************************************************************)
(* Specification Spec: the regatta hierarchy.  The database starts with two *)
(* schools and their teams, as after initialisation, and no regatta.  The   *)
(* handlers run one at a time on the GUI thread; delete_event and           *)
(* delete_regatta are taken statement by statement.                         *)
(***************************************************************************)
MaxRegattas == 1
MaxEvents == 2
MaxEntries == 2
MaxRows == 2

NameA == <<"a">>
NameB == <<"b">>
NameC == <<"c">>

RaceDay == 3
RaceDates == {RaceDay}
FormSchools == {<<>>, NameA, NameB, NameC}
RaceCategories == {"W/OW"}
FormTimes == {None, 1, 2}
FormRows == [school : FormSchools, time : FormTimes]
Forms == UNION {[1..n -> FormRows] : n \in 1..MaxRows}

\* current_school_choices is filled by get_schools_participating_at_date,
\* which is defined nowhere in the repository; it is taken to be the list of
\* school names loaded when the event was selected.
current_school_choices == {NameA, NameB}

InitialTables ==
    [EmptyTables EXCEPT
        !.schools = {School(1, NameA, NameA), School(2, NameB, NameB)},
        !.teams = {[team_id |-> 1, school_id |-> 1, category |-> "W/OW"],
                   [team_id |-> 2, school_id |-> 2, category |-> "W/OW"]},
        !.conference_affiliations =
            {[affiliation_id |-> 1, team_id |-> 1, conference |-> "Ivy",
              start_date |-> 1, end_date |-> None],
             [affiliation_id |-> 2, team_id |-> 2, conference |-> "ACC",
              start_date |-> 1, end_date |-> RaceDay]},
        !.school_participations =
            {[participation_id |-> 1, school_id |-> 1, start_year |-> BaseYear,
              end_year |-> None, flags |-> {"openweight_women"}],
             [participation_id |-> 2, school_id |-> 2, start_year |-> BaseYear,
              end_year |-> None, flags |-> {"openweight_women"}]},
        !.seq = [@ EXCEPT !.schools = 2, !.teams = 2, !.conference_affiliations = 2,
                          !.school_participations = 2]]

Init ==
    /\ ParserIdle /\ OverlapIdle /\ ControlIdle
    /\ TablesAre(InitialTables) /\ committed = InitialTables
    /\ in_transaction = FALSE
    /\ school_cache = SchoolCacheOf(InitialTables)
    /\ crr_name_to_id_cache = CrrCacheOf(InitialTables)

\* conn.commit() after the statement that produced t.
Commit(t) == SetTables(t) /\ committed' = t /\ in_transaction' = FALSE

AddRegatta ==
    /\ pc = "idle" /\ seq.regattas < MaxRegattas
    /\ \E start_date \in RaceDates : Commit(add_regatta(Tables, start_date))
    /\ op' = [name |-> "add_regatta"]
    /\ UNCHANGED <<parserVars, overlapVars, cacheVars, pc>>

\* add_event with the regatta the application holds as current; when that
\* regatta is gone the INSERT fails on the foreign key, after the implicit
\* BEGIN, and nothing rolls back.
AddEvent ==
    /\ pc = "idle" /\ seq.events < MaxEvents
    /\ \E regatta_id \in 1..seq.regattas, category \in RaceCategories,
          scheduled_at \in {None} :
         IF \E r \in regattas : r.regatta_id = regatta_id
         THEN /\ Commit(add_event(Tables, regatta_id, category, scheduled_at))
              /\ op' = [name |-> "add_event"]
         ELSE /\ in_transaction' = TRUE
              /\ op' = [name |-> "add_event"]
              /\ UNCHANGED <<tableVars, committed>>
    /\ UNCHANGED <<parserVars, overlapVars, cacheVars, pc>>

SubmitResults ==
    /\ pc = "idle"
    /\ \E event_id \in 1..seq.events, rows \in Forms :
         LET collected == CollectEntries(rows, 1)
             verdict == ValidateEntries(current_school_choices, collected)
         IN /\ seq.entries + Len(collected) <= MaxEntries
            /\ IF verdict # "ok"
               THEN /\ op' = [name |-> "submit_results", event_id |-> event_id,
                              outcome |-> "rejected"]
                    /\ UNCHANGED <<dbVars>>
               ELSE LET s == SubmitToDatabase(Tables, committed, event_id, collected)
                    IN /\ SetTables(s.t)
                       /\ committed' = s.committed
                       /\ in_transaction' = s.in_transaction
                       /\ op' = [name |-> "submit_results", event_id |-> event_id,
                                 outcome |-> s.outcome]
    /\ UNCHANGED <<parserVars, overlapVars, cacheVars, pc>>

\* delete_event, first statement.  op keeps the tables as they were.
DeleteEventResults ==
    /\ pc = "idle"
    /\ \E event_id \in 1..MaxEvents :
         /\ SetTables(delete_event_results(Tables, event_id))
         /\ op' = [name |-> "delete_event", id |-> event_id, pre |-> Tables]
    /\ in_transaction' = TRUE
    /\ pc' = "delete_event_entries"
    /\ UNCHANGED <<parserVars, overlapVars, cacheVars, committed>>

DeleteEventEntries ==
    /\ pc = "delete_event_entries"
    /\ SetTables(delete_event_entries(Tables, op.id))
    /\ pc' = "delete_event_row"
    /\ UNCHANGED <<parserVars, overlapVars, cacheVars, committed, in_transaction, op>>

\* third statement and commit
DeleteEventRow ==
    /\ pc = "delete_event_row"
    /\ Commit(delete_event_row(Tables, op.id))
    /\ pc' = "idle"
    /\ UNCHANGED <<parserVars, overlapVars, cacheVars, op>>

DeleteRegattaResults ==
    /\ pc = "idle"
    /\ \E regatta_id \in 1..MaxRegattas :
         /\ SetTables(delete_regatta_results(Tables, regatta_id))
         /\ op' = [name |-> "delete_regatta", id |-> regatta_id, pre |-> Tables]
    /\ in_transaction' = TRUE
    /\ pc' = "delete_regatta_entries"
    /\ UNCHANGED <<parserVars, overlapVars, cacheVars, committed>>

DeleteRegattaEntries ==
    /\ pc = "delete_regatta_entries"
    /\ SetTables(delete_regatta_entries(Tables, op.id))
    /\ pc' = "delete_regatta_events"
    /\ UNCHANGED <<parserVars, overlapVars, cacheVars, committed, in_transaction, op>>

DeleteRegattaEvents ==
    /\ pc = "delete_regatta_events"
    /\ SetTables(delete_regatta_events(Tables, op.id))
    /\ pc' = "delete_regatta_row"
    /\ UNCHANGED <<parserVars, overlapVars, cacheVars, committed, in_transaction, op>>

\* fourth statement and commit
DeleteRegattaRow ==
    /\ pc = "delete_regatta_row"
    /\ Commit(delete_regatta_row(Tables, op.id))
    /\ pc' = "idle"
    /\ UNCHANGED <<parserVars, overlapVars, cacheVars, op>>

\* The loop of _delete_selected_schools: per name, the participations of the
\* school and then the school row.
DeleteSchoolsNamed(t, names) ==
    LET rows == {x \in t.schools : x.crr_name \in names}
        ids == {x.school_id : x \in rows}
        t1 == [t EXCEPT !.school_participations = {sp \in @ : sp.school_id \notin ids}]
    IN SqlDeleteSchools(t1, rows)

\* _delete_selected_schools: BEGIN TRANSACTION fails when the connection
\* already has a transaction open; the handler then rolls back.
DeleteSelectedSchools ==
    /\ pc = "idle"
    /\ \E names \in SUBSET {x.crr_name : x \in schools} :
         /\ names # {}
         /\ IF in_transaction
            THEN /\ SetTables(committed)
                 /\ op' = [name |-> "delete_schools"]
                 /\ UNCHANGED <<committed, cacheVars>>
            ELSE LET t1 == DeleteSchoolsNamed(Tables, names)
                 IN /\ SetTables(t1) /\ committed' = t1
                    /\ school_cache' = SchoolCacheOf(t1)
                    /\ crr_name_to_id_cache' = CrrCacheOf(t1)
                    /\ op' = [name |-> "delete_schools"]
    /\ in_transaction' = FALSE
    /\ UNCHANGED <<parserVars, overlapVars, pc>>

Next ==
    \/ AddRegatta \/ AddEvent \/ SubmitResults
    \/ DeleteEventResults \/ DeleteEventEntries \/ DeleteEventRow
    \/ DeleteRegattaResults \/ DeleteRegattaEntries
    \/ DeleteRegattaEvents \/ DeleteRegattaRow
    \/ DeleteSelectedSchools

Spec == Init /\ [][Next]_vars

C4_AtMostOneResult ==
    \A e \in entries : Cardinality({r \in results : r.entry_id = e.entry_id}) <= 1

\* A submission of two timed rows has stored two entries, each with its
\* own result.
C4_Witness ==
    /\ op.name = "submit_results" /\ op.outcome = "ok"
    /\ Cardinality({e \in entries : e.event_id = op.event_id
                       /\ \E r \in results : r.entry_id = e.entry_id}) >= 2

ReferentialIntegrity(t) ==
    /\ \A r \in t.results : \E e \in t.entries : e.entry_id = r.entry_id
    /\ \A e \in t.entries :
         /\ \E v \in t.events : v.event_id = e.event_id
         /\ \E x \in t.teams : x.team_id = e.team_id
    /\ \A v \in t.events : \E r \in t.regattas : r.regatta_id = v.regatta_id
    /\ \A x \in t.teams : \E sc \in t.schools : sc.school_id = x.school_id
    /\ \A a \in t.conference_affiliations : \E x \in t.teams : x.team_id = a.team_id
    /\ \A sp \in t.school_participations :
         \E sc \in t.schools : sc.school_id = sp.school_id

\* C5: in every state, the states between the DELETE statements of
\* delete_event and delete_regatta included, every result has its entry,
\* every entry its event and team, every event its regatta, every team its
\* school, every affiliation its team and every participation its school.
C5_ReferentialIntegrity == ReferentialIntegrity(Tables)

\* delete_regatta stands between its second and third statement, the
\* regatta had entries with results, and a school with teams was deleted
\* earlier.
C5_Witness ==
    /\ pc = "delete_regatta_events"
    /\ \E r \in op.pre.results : \E e \in op.pre.entries :
         /\ e.entry_id = r.entry_id
         /\ \E v \in op.pre.events : v.event_id = e.event_id /\ v.regatta_id = op.id
    /\ Cardinality(schools) < 2

(***************************************************************************)
(* Specification SpecSchool: the schools table and the two caches of the    *)
(* manager under add_school, update_school_field and the add-school dialog  *)
(* of the D1 schools tab.  The database starts with one school that has a   *)
(* team, an affiliation, a participation record, an entry and a result.     *)
(***************************************************************************)
MaxSchools == 3

CrrInputs == {<<>>, <<" ">>, NameA, <<" ">> \o NameA, NameB, NameC}
SchoolNameInputs == {<<>>, NameA}
FieldNames == {"name", "short_name", "acronym", "crr_name", "color"}
FieldInputs == {"name", "crr_name", "nickname"}

SchoolTables ==
    [EmptyTables EXCEPT
        !.schools = {School(1, NameA, NameA)},
        !.teams = {[team_id |-> 1, school_id |-> 1, category |-> "W/OW"]},
        !.conference_affiliations =
            {[affiliation_id |-> 1, team_id |-> 1, conference |-> "Ivy",
              start_date |-> 1, end_date |-> None]},
        !.school_participations =
            {[participation_id |-> 1, school_id |-> 1, start_year |-> BaseYear,
              end_year |-> None, flags |-> {"openweight_women"}]},
        !.regattas = {[regatta_id |-> 1, start_date |-> RaceDay]},
        !.events = {[event_id |-> 1, regatta_id |-> 1, category |-> "W/OW",
                     scheduled_at |-> None]},
        !.entries = {[entry_id |-> 1, event_id |-> 1, team_id |-> 1,
                      conference_at_time |-> "Ivy"]},
        !.results = {[result_id |-> 1, entry_id |-> 1, position |-> 1,
                      elapsed_sec |-> 1, margin_sec |-> 0]},
        !.seq = [schools |-> 1, teams |-> 1, regattas |-> 1, events |-> 1,
                 entries |-> 1, results |-> 1, school_participations |-> 1,
                 conference_affiliations |-> 1]]

InitSchool ==
    /\ ParserIdle /\ OverlapIdle /\ ControlIdle
    /\ TablesAre(SchoolTables) /\ committed = SchoolTables
    /\ in_transaction = FALSE
    /\ school_cache = SchoolCacheOf(SchoolTables)
    /\ crr_name_to_id_cache = CrrCacheOf(SchoolTables)

\* conn.rollback(): the tables are the last committed ones again.
Rollback == SetTables(committed) /\ in_transaction' = FALSE /\ UNCHANGED committed

\* INSERT INTO schools
InsertSchool(t, name, crr_name) ==
    [Bump(t, "schools") EXCEPT
        !.schools = @ \cup {School(NextId(t, "schools"), name, crr_name)}]

\* UPDATE schools SET field = ? WHERE school_id = ?
UpdateSchoolRow(t, school_id, field_name, new_value) ==
    [t EXCEPT !.schools =
        {IF x.school_id = school_id /\ field_name \in {"name", "crr_name"}
            THEN [x EXCEPT ![field_name] = new_value] ELSE x : x \in @}]

\* A mutant of DictDel: the key stays.
DictKeep(d, k) == d

\* dict with one key removed / one key set
DictDel(d, k) == [x \in DOMAIN d \ {k} |-> d[x]]
DictSet(d, k, v) == [x \in DOMAIN d \cup {k} |-> IF x = k THEN v ELSE d[x]]

\* The seasons get_all_seasons reads from school_participations.
get_all_seasons(t) ==
    {Season(sp.start_year, sp.end_year) : sp \in t.school_participations}

\* DatabaseManager.add_school(name, crr_name=...)
AddSchool ==
    /\ pc = "idle" /\ seq.schools < MaxSchools
    /\ \E name \in SchoolNameInputs, crr_input \in CrrInputs :
         LET crr_name == Strip(IF crr_input = <<>> THEN name ELSE crr_input)
             t1 == InsertSchool(Tables, name, crr_name)
             school_id == t1.seq.schools
         IN IF crr_name \in DOMAIN crr_name_to_id_cache
            THEN /\ op' = [name |-> "add_school", outcome |-> "error"]
                 /\ UNCHANGED <<dbVars, cacheVars>>
            ELSE IF CrrNameTaken(Tables, crr_name, None) \/ ~SchoolPostInitOk(crr_name)
            THEN /\ Rollback
                 /\ op' = [name |-> "add_school", outcome |-> "error"]
                 /\ UNCHANGED cacheVars
            ELSE /\ Commit(t1)
                 /\ school_cache' = DictSet(school_cache, school_id,
                                            School(school_id, name, crr_name))
                 /\ crr_name_to_id_cache' = DictSet(crr_name_to_id_cache, crr_name, school_id)
                 /\ op' = [name |-> "add_school", outcome |-> "ok"]
    /\ UNCHANGED <<parserVars, overlapVars, pc>>

\* DatabaseManager.update_school_field(school_id, field_name, new_value).
\* op keeps the arguments, the school as cached before the call and the
\* tables before the call.
UpdateSchoolField ==
    /\ pc = "idle"
    /\ \E school_id \in 1..MaxSchools, field_name \in FieldInputs :
       \E input \in IF field_name = "crr_name" THEN CrrInputs ELSE SchoolNameInputs :
         LET old_school == SchoolGet(school_cache, school_id)
             new_value == IF field_name = "crr_name" THEN Strip(input) ELSE input
             existing_id == CacheGet(crr_name_to_id_cache, new_value)
             t1 == UpdateSchoolRow(Tables, school_id, field_name, new_value)
             failed == [name |-> "update_school_field", outcome |-> "error"]
         IN IF field_name \notin FieldNames \/ old_school = NoSchool
            THEN /\ op' = failed /\ UNCHANGED <<dbVars, cacheVars>>
            ELSE IF field_name = "crr_name" /\
                    (Strip(input) = <<>> \/ (existing_id # None /\ existing_id # school_id))
            THEN /\ op' = failed /\ UNCHANGED <<dbVars, cacheVars>>
            ELSE IF in_transaction \/
                    (field_name = "crr_name" /\ CrrNameTaken(Tables, new_value, school_id))
            THEN /\ Rollback /\ op' = failed /\ UNCHANGED cacheVars
            ELSE /\ Commit(t1)
                 /\ crr_name_to_id_cache' =
                      IF field_name = "crr_name"
                      THEN DictSet(DictDel(crr_name_to_id_cache, old_school.crr_name),
                                   new_value, school_id)
                      ELSE crr_name_to_id_cache
                 /\ school_cache' = DictSet(school_cache, school_id,
                                            [old_school EXCEPT ![field_name] = new_value])
                 /\ op' = [name |-> "update_school_field", outcome |-> "ok",
                           school_id |-> school_id, field_name |-> field_name,
                           new_value |-> input, old_school |-> old_school,
                           pre |-> Tables]
    /\ UNCHANGED <<parserVars, overlapVars, pc>>

\* add_school of the add-school dialog, with the season the tab displays.
DialogAddSchool ==
    /\ pc = "idle" /\ seq.schools < MaxSchools
    /\ \E input \in CrrInputs, current_season \in get_all_seasons(Tables) :
         LET crr_name == Strip(input)
             t1 == InsertSchool(Tables, <<>>, crr_name)
             t2 == [Bump(t1, "school_participations") EXCEPT
                       !.school_participations = @ \cup
                          {[participation_id |-> NextId(t1, "school_participations"),
                            school_id |-> t1.seq.schools,
                            start_year |-> current_season.start_year,
                            end_year |-> current_season.end_year,
                            flags |-> {}]}]
         IN IF crr_name = <<>> \/ CacheGet(crr_name_to_id_cache, crr_name) # None
            THEN /\ op' = [name |-> "dialog_add_school", outcome |-> "rejected"]
                 /\ UNCHANGED <<dbVars, cacheVars>>
            ELSE IF in_transaction \/ CrrNameTaken(Tables, crr_name, None)
            THEN /\ Rollback
                 /\ op' = [name |-> "dialog_add_school", outcome |-> "error"]
                 /\ UNCHANGED cacheVars
            ELSE /\ Commit(t2)
                 /\ school_cache' = SchoolCacheOf(t2)
                 /\ crr_name_to_id_cache' = CrrCacheOf(t2)
                 /\ op' = [name |-> "dialog_add_school", outcome |-> "ok"]
    /\ UNCHANGED <<parserVars, overlapVars, pc>>

NextSchool == AddSchool \/ UpdateSchoolField \/ DialogAddSchool

SpecSchool == InitSchool /\ [][NextSchool]_vars

\* C6: in every state reached by add_school, update_school_field and the
\* dialog's add-school, accepted or rejected, no two rows of schools share a
\* CRR name and no row has an empty CRR name.
C6_UniqueNonEmptyCrrNames ==
    /\ \A x, y \in schools : x.crr_name = y.crr_name => x.school_id = y.school_id
    /\ \A x \in schools : x.crr_name # <<>>

\* A rejected add_school with two schools stored.
C6_Witness ==
    /\ op.name = "add_school" /\ op.outcome = "error"
    /\ Cardinality(schools) = 2

\* What C9 says of a successful update_school_field(id, 'crr_name', new),
\* with new_name the name to look up afterwards.
CrrNameChanged(new_name, old_gone) ==
    (op.name = "update_school_field" /\ op.outcome = "ok"
        /\ op.field_name = "crr_name") =>
      /\ \E x \in schools : x.school_id = op.school_id /\ x.crr_name = new_name
      /\ {x.school_id : x \in schools} = {x.school_id : x \in op.pre.schools}
      /\ get_school_by_crr_name(new_name) # NoSchool
      /\ get_school_by_crr_name(new_name).school_id = op.school_id
      /\ (old_gone => get_school_by_crr_name(op.old_school.crr_name) = NoSchool)
      /\ teams = op.pre.teams
      /\ conference_affiliations = op.pre.conference_affiliations
      /\ school_participations = op.pre.school_participations
      /\ entries = op.pre.entries /\ results = op.pre.results

\* C9 as written: the lookup by the new name finds the school under its old
\* id, the lookup by the old name finds nothing, the dependent rows are as
\* they were.
C9_AsWritten == CrrNameChanged(Strip(op.new_value), TRUE)

\* C9 amended: the new name is the value given with surrounding whitespace
\* removed, and the lookup by the old name finds nothing when the new name
\* differs from the old one.
C9_CrrNameChange ==
    CrrNameChanged(Strip(op.new_value),
                   Strip(op.new_value) # op.old_school.crr_name)

\* The school that has the team, the entry and the result was renamed from
\* "a" to "b".
C9_Witness ==
    /\ op.name = "update_school_field" /\ op.outcome = "ok"
    /\ op.field_name = "crr_name" /\ op.school_id = 1
    /\ op.old_school.crr_name = NameA /\ Strip(op.new_value) = NameB
    /\ results # {}

(***************************************************************************)
(* Specification SpecConf: add_entry against the affiliations of a team.    *)
(* Dates are day numbers; the database starts with one school, its team, up *)
(* to two affiliations of the team and one event of one regatta.            *)
(***************************************************************************)
MaxDate == 3
Dates == 1..MaxDate
Conferences == {"Ivy", "ACC"}

Affiliations(id) ==
    [affiliation_id : {id}, team_id : {1}, conference : Conferences,
     start_date : Dates, end_date : {None} \cup Dates]

\* No affiliation, or one with the id.
AtMostOne(id) == {{}} \cup {{a} : a \in Affiliations(id)}

ConfTables(affs, start_date, scheduled_at) ==
    [EmptyTables EXCEPT
        !.schools = {School(1, NameA, NameA)},
        !.teams = {[team_id |-> 1, school_id |-> 1, category |-> "W/OW"]},
        !.conference_affiliations = affs,
        !.regattas = {[regatta_id |-> 1, start_date |-> start_date]},
        !.events = {[event_id |-> 1, regatta_id |-> 1, category |-> "W/OW",
                     scheduled_at |-> scheduled_at]},
        !.seq = [@ EXCEPT !.schools = 1, !.teams = 1, !.regattas = 1, !.events = 1,
                          !.conference_affiliations = Cardinality(affs)]]

InitConf ==
    /\ ParserIdle /\ OverlapIdle /\ ControlIdle
    /\ \E first \in AtMostOne(1), second \in AtMostOne(2),
          start_date \in Dates, scheduled_at \in {None, MaxDate} :
         /\ Cardinality(second) <= Cardinality(first)
         /\ TablesAre(ConfTables(first \cup second, start_date, scheduled_at))
         /\ committed = ConfTables(first \cup second, start_date, scheduled_at)
    /\ in_transaction = FALSE
    /\ school_cache = SchoolCacheOf(Tables)
    /\ crr_name_to_id_cache = CrrCacheOf(Tables)

\* DatabaseManager.add_entry(event_id, team_id); op keeps the arguments, the
\* event date it read and the id of the entry it stored.
AddEntry ==
    /\ pc = "idle" /\ seq.entries < MaxEntries
    /\ \E event_id \in {e.event_id : e \in events}, team_id \in {x.team_id : x \in teams} :
         LET event_date == get_event_date(Tables, event_id)
         IN \E conference_at_time \in
                  get_team_conference_at_date(Tables, team_id, event_date) :
              /\ Commit(InsertEntry(Tables, event_id, team_id, conference_at_time))
              /\ op' = [name |-> "add_entry", team_id |-> team_id,
                        event_date |-> event_date, entry_id |-> NextId(Tables, "entries")]
    /\ UNCHANGED <<parserVars, overlapVars, cacheVars, pc>>

NextConf == AddEntry

SpecConf == InitConf /\ [][NextConf]_vars

\* The affiliations of the team whose period, both ends included, has the day.
Containing(team_id, day) ==
    {a \in conference_affiliations :
        /\ a.team_id = team_id /\ a.start_date <= day
        /\ (a.end_date = None \/ day <= a.end_date)}

\* C7: the entry add_entry stored has the conference of an affiliation of
\* the team whose period [start, end], both ends included, has the event
\* date, one with the latest start among them; it has 'Unknown' only when
\* no affiliation has the date.
C7_ConferenceAtEventDate ==
    op.name = "add_entry" =>
      \A e \in entries : e.entry_id = op.entry_id =>
        LET sel == Containing(op.team_id, op.event_date)
        IN IF sel = {} THEN e.conference_at_time = "Unknown"
           ELSE \E a \in sel :
                  /\ \A b \in sel : b.start_date <= a.start_date
                  /\ e.conference_at_time = a.conference

(***************************************************************************)
(* Specification SpecPart: the participation cells of the D1 schools tab.   *)
(* The database starts with two schools; the first has a record for one     *)
(* season, the second has none.                                             *)
(***************************************************************************)
TeamTypes == {"openweight_women", "heavyweight_men", "lightweight_men", "lightweight_women"}

\* Season.display_name: the start year, then " - current" or "-" and the
\* end year.
display_name(season) ==
    IF season.end_year = None
    THEN [year_text |-> season.start_year, rest |-> " - current", end_text |-> None]
    ELSE [year_text |-> season.start_year, rest |-> "-", end_text |-> season.end_year]

\* The rows the LEFT JOIN of get_school_participations_for_season pairs
\* with the school, for the season the tab displays.
DisplayedRecords(t, school_id, season) ==
    {sp \in t.school_participations :
        /\ sp.school_id = school_id
        /\ sp.start_year = season.start_year
        /\ (sp.end_year = None \/ sp.end_year > season.start_year)}

\* The text of a participation cell.
CellValue(t, school_id, team_type, season) ==
    IF \E sp \in DisplayedRecords(t, school_id, season) : team_type \in sp.flags
    THEN "Yes" ELSE "No"

\* update_school_participation_by_id, up to the commit.
update_school_participation_by_id(t, school_id, team_type, participating, season_display) ==
    LET is_now == season_display.rest = " - current"
        season_year == season_display.year_text
        end_year == IF is_now THEN None ELSE season_year + 1
        existing == {sp \in t.school_participations :
                        sp.school_id = school_id /\ sp.start_year = season_year}
    IN IF existing # {}
       THEN LET hit == CHOOSE sp \in existing :
                          \A o \in existing : sp.participation_id <= o.participation_id
            IN [t EXCEPT !.school_participations =
                   (@ \ {hit}) \cup
                     {[hit EXCEPT !.flags = IF participating THEN @ \cup {team_type}
                                            ELSE @ \ {team_type}]}]
       ELSE [Bump(t, "school_participations") EXCEPT
                !.school_participations = @ \cup
                   {[participation_id |-> NextId(t, "school_participations"),
                     school_id |-> school_id, start_year |-> season_year,
                     end_year |-> end_year,
                     flags |-> IF participating THEN {team_type} ELSE {}]}]

PartTables(season, flags) ==
    [EmptyTables EXCEPT
        !.schools = {School(1, NameA, NameA), School(2, NameB, NameB)},
        !.school_participations =
            {[participation_id |-> 1, school_id |-> 1, start_year |-> season.start_year,
              end_year |-> season.end_year, flags |-> flags]},
        !.seq = [@ EXCEPT !.schools = 2, !.school_participations = 1]]

InitPart ==
    /\ ParserIdle /\ OverlapIdle /\ ControlIdle
    /\ \E season \in WellFormedSeasons, flags \in {{}, {"openweight_women"}} :
         /\ TablesAre(PartTables(season, flags))
         /\ committed = PartTables(season, flags)
    /\ in_transaction = FALSE
    /\ school_cache = SchoolCacheOf(Tables)
    /\ crr_name_to_id_cache = CrrCacheOf(Tables)

\* _toggle_participation on the cell of a school and a team type, in the
\* season the tab displays.  op keeps the school, the team type, the season
\* and the participation table before the click.
ToggleParticipation ==
    /\ pc = "idle"
    /\ \E sc \in schools, column_key \in TeamTypes, season \in get_all_seasons(Tables) :
         LET current_value == CellValue(Tables, sc.school_id, column_key, season)
             new_value == IF current_value = "Yes" THEN "No" ELSE "Yes"
             school_id == CacheGet(crr_name_to_id_cache, sc.crr_name)
         IN IF school_id = None \/ school_id = 0
            THEN /\ op' = [name |-> "toggle_participation", outcome |-> "error"]
                 /\ UNCHANGED dbVars
            ELSE /\ Commit(update_school_participation_by_id(
                              Tables, school_id, column_key, new_value = "Yes",
                              display_name(season)))
                 /\ op' = [name |-> "toggle_participation", outcome |-> "ok",
                           school_id |-> school_id, team_type |-> column_key,
                           season |-> season, pre |-> school_participations]
    /\ UNCHANGED <<parserVars, overlapVars, cacheVars, pc>>

NextPart == ToggleParticipation

SpecPart == InitPart /\ [][NextPart]_vars

\* C8: after a toggle for a school that had no record starting in the
\* displayed season's start year, the table has one more record: of that
\* school, from the season's start year to the season's end year (no end for
\* the current season), with the toggled team type set and no other.
C8_ToggleCreatesSeasonRecord ==
    (op.name = "toggle_participation" /\ op.outcome = "ok"
        /\ \A sp \in op.pre : ~(sp.school_id = op.school_id
                                 /\ sp.start_year = op.season.start_year)) =>
      \E sp \in school_participations :
        /\ school_participations = op.pre \cup {sp} /\ sp \notin op.pre
        /\ sp.school_id = op.school_id
        /\ sp.start_year = op.season.start_year
        /\ sp.end_year = op.season.end_year
        /\ sp.flags = {op.team_type}

(***************************************************************************)
(* SeasonManager: creating a season with overlap resolution                 *)
(***************************************************************************)
\* The characters of the model's CRR names in the order of SQLite's BINARY
\* collation, and ORDER BY crr_name on two names.
Collation == <<" ", "a", "b", "c">>
CharRank(c) == CHOOSE i \in 1..Len(Collation) : Collation[i] = c
RECURSIVE TextLess(_, _)
TextLess(a, b) ==
    IF b = <<>> THEN FALSE
    ELSE IF a = <<>> THEN TRUE
    ELSE IF a[1] = b[1] THEN TextLess(Tail(a), Tail(b))
    ELSE CharRank(a[1]) < CharRank(b[1])

\* The rows of get_school_participations_for_season for one school: its
\* crr_name and the four flags of each record the LEFT JOIN pairs with it
\* (start year equal to season_year, end date NULL or end year greater), or
\* one row of zeros when no record matches.
RECURSIVE JoinedRows(_, _)
JoinedRows(sc, sps) ==
    IF sps = {} THEN <<>>
    ELSE LET sp == CHOOSE x \in sps : \A y \in sps : x.participation_id <= y.participation_id
         IN <<[crr_name |-> sc.crr_name, flags |-> sp.flags]>> \o JoinedRows(sc, sps \ {sp})

SchoolRows(t, sc, season_year) ==
    LET sps == {sp \in t.school_participations :
                  /\ sp.school_id = sc.school_id
                  /\ sp.start_year = season_year
                  /\ (sp.end_year = None \/ sp.end_year > season_year)}
    IN IF sps = {} THEN <<[crr_name |-> sc.crr_name, flags |-> {}]>>
       ELSE JoinedRows(sc, sps)

RECURSIVE RowsOfSchools(_, _, _)
RowsOfSchools(t, scs, season_year) ==
    IF scs = {} THEN <<>>
    ELSE LET sc == CHOOSE x \in scs : \A y \in scs : x = y \/ TextLess(x.crr_name, y.crr_name)
         IN SchoolRows(t, sc, season_year) \o RowsOfSchools(t, scs \ {sc}, season_year)

\* DatabaseManager.get_school_participations_for_season(season_year)
get_school_participations_for_season(t, season_year) ==
    RowsOfSchools(t, {sc \in t.schools : sc.crr_name # <<>>}, season_year)

\* SeasonManager.get_season_participation_data(season)
get_season_participation_data(t, season) ==
    get_school_participations_for_season(t, season.start_year)

\* SeasonManager.get_all_seasons as the list it returns: the distinct seasons
\* ORDER BY start_year DESC.  SQL leaves the order of seasons with the same
\* start year open, so every such order is a possible list.
RECURSIVE SeasonLists(_)
SeasonLists(S) ==
    IF S = {} THEN {<<>>}
    ELSE LET top == {x \in S : \A y \in S : x.start_year >= y.start_year}
         IN UNION {{<<x>> \o rest : rest \in SeasonLists(S \ {x})} : x \in top}

all_seasons_lists(t) == SeasonLists(get_all_seasons(t))

\* INSERT INTO school_participations (one row)
InsertParticipation(t, school_id, season, flags) ==
    [Bump(t, "school_participations") EXCEPT
        !.school_participations = @ \cup
           {[participation_id |-> NextId(t, "school_participations"),
             school_id |-> school_id, start_year |-> season.start_year,
             end_year |-> season.end_year, flags |-> flags]}]

\* SeasonManager._insert_season_data from row i on
RECURSIVE insert_season_data(_, _, _, _)
insert_season_data(t, season, participation_data, i) ==
    IF i > Len(participation_data) THEN t
    ELSE LET school_data == participation_data[i]
             result == {sc \in t.schools : sc.crr_name = school_data.crr_name}
             t1 == IF result = {} THEN t
                   ELSE InsertParticipation(t, (CHOOSE sc \in result : TRUE).school_id,
                                            season, school_data.flags)
         IN insert_season_data(t1, season, participation_data, i + 1)

\* DELETE FROM school_participations WHERE SUBSTR(start_date, 1, 4) = ?
DeleteSeasonRecords(t, start_year) ==
    [t EXCEPT !.school_participations = {sp \in @ : sp.start_year # start_year}]

\* SeasonManager._split_existing_season
split_existing_season(t, existing, new, existing_data) ==
    LET t1 == IF existing.start_year < new.start_year
              THEN insert_season_data(t, Season(existing.start_year, new.start_year - 1),
                                      existing_data, 1)
              ELSE t
    IN IF existing.end_year # None /\ new.end_year # None
          /\ existing.end_year > new.end_year
       THEN insert_season_data(t1, Season(new.end_year + 1, existing.end_year),
                               existing_data, 1)
       ELSE t1

\* SeasonManager._trim_season_start
trim_season_start(t, existing, new, existing_data) ==
    IF new.end_year # None
    THEN insert_season_data(t, Season(new.end_year + 1, existing.end_year), existing_data, 1)
    ELSE t

\* A mutant of trim_season_end: the existing season is put back untrimmed.
trim_season_end_untrimmed(t, existing, new, existing_data) ==
    insert_season_data(t, existing, existing_data, 1)

\* SeasonManager._trim_season_end
trim_season_end(t, existing, new, existing_data) ==
    insert_season_data(t, Season(existing.start_year, new.start_year - 1), existing_data, 1)

\* A mutant of execute_overlap_resolution: an open-ended season next to the
\* new one is deleted and not put back as a finite season.
execute_overlap_resolution_no_trim(t, new, overlap) ==
    DeleteSeasonRecords(t, overlap.existing_season.start_year)

\* SeasonManager._execute_overlap_resolution
execute_overlap_resolution(t, new, overlap) ==
    LET existing == overlap.existing_season
        overlap_type == overlap.overlap_type
        existing_data == get_season_participation_data(t, existing)
        t1 == DeleteSeasonRecords(t, existing.start_year)
    IN CASE overlap_type \in {"ADJACENT_CURRENT_SEASONS", "ADJACENT_CURRENT_TO_FINITE"} ->
              insert_season_data(t1, Season(existing.start_year, new.start_year),
                                 existing_data, 1)
         [] overlap_type = "EXISTING_CONTAINS_NEW" ->
              split_existing_season(t1, existing, new, existing_data)
         [] overlap_type = "OVERLAP_START" ->
              trim_season_start(t1, existing, new, existing_data)
         [] overlap_type = "OVERLAP_END" ->
              trim_season_end(t1, existing, new, existing_data)
         [] OTHER -> t1

\* OverlapAnalyzer.plan_overlap_resolution: the 'overlaps' list
RECURSIVE plan_overlap_resolution(_, _, _)
plan_overlap_resolution(new, existing_seasons, i) ==
    IF i > Len(existing_seasons) THEN <<>>
    ELSE LET existing == existing_seasons[i]
             overlap_type == analyze_overlap_tab(new, existing)
         IN (IF overlap_type # "NO_OVERLAP"
             THEN <<[existing_season |-> existing, overlap_type |-> overlap_type]>>
             ELSE <<>>)
            \o plan_overlap_resolution(new, existing_seasons, i + 1)

\* The loop over resolution_plan['overlaps'], from overlap i up to and
\* including overlap last.
RECURSIVE ResolveOverlaps(_, _, _, _, _)
ResolveOverlaps(t, new, overlaps, i, last) ==
    IF i > last THEN t
    ELSE ResolveOverlaps(execute_overlap_resolution(t, new, overlaps[i]),
                         new, overlaps, i + 1, last)

\* The school ids of SELECT school_id FROM schools, in rowid order, as rows
\* with no participation.
RECURSIVE NoParticipationRows(_)
NoParticipationRows(scs) ==
    IF scs = {} THEN <<>>
    ELSE LET sc == CHOOSE x \in scs : \A y \in scs : x.school_id <= y.school_id
         IN <<sc.school_id>> \o NoParticipationRows(scs \ {sc})

RECURSIVE InsertNoParticipation(_, _, _, _)
InsertNoParticipation(t, season, school_ids, i) ==
    IF i > Len(school_ids) THEN t
    ELSE InsertNoParticipation(InsertParticipation(t, school_ids[i], season, {}),
                               season, school_ids, i + 1)

\* SeasonManager._create_new_season_records
create_new_season_records(t, new, copy_data) ==
    IF copy_data # <<>>
    THEN insert_season_data(t, new, copy_data, 1)
    ELSE InsertNoParticipation(t, new, NoParticipationRows(t.schools), 1)

\* A mutant of RollbackAfter: the tables stay as the failed call left them.
NoRollbackAfter(t) == SetTables(t) /\ UNCHANGED committed /\ in_transaction' = FALSE

\* conn.rollback() in an except clause, the connection's view being t: the
\* tables are the last committed ones again.
RollbackAfter(t) == SetTables(committed) /\ UNCHANGED committed /\ in_transaction' = FALSE

\* SeasonManager.create_season_with_overlap_resolution(new_season,
\* copy_from_season), with existing_seasons the list get_all_seasons returns.
\* fail_at is None when no statement raises, otherwise the number of overlaps
\* resolved before a statement raises.  op keeps the participation table
\* before the call and, for a call that returns, its arguments; for a call
\* that raises, whether the table had been changed when it raised.
create_season_with_overlap_resolution(new, copy_from_season, existing_seasons, fail_at) ==
    LET copy_data == IF copy_from_season # NoSeason
                     THEN get_season_participation_data(Tables, copy_from_season)
                     ELSE <<>>
        overlaps == plan_overlap_resolution(new, existing_seasons, 1)
        resolved == ResolveOverlaps(Tables, new, overlaps, 1, Len(overlaps))
        created == create_new_season_records(resolved, new, copy_data)
        raised(partial) == [name |-> "create_season", outcome |-> "error",
                            pre |-> school_participations,
                            changed |-> partial.school_participations # school_participations]
    IN IF in_transaction
       THEN \* BEGIN TRANSACTION inside an open transaction raises
            /\ RollbackAfter(Tables)
            /\ op' = raised(Tables)
       ELSE IF fail_at # None
       THEN LET partial == ResolveOverlaps(Tables, new, overlaps, 1, fail_at)
            IN /\ fail_at <= Len(overlaps)
               /\ RollbackAfter(partial)
               /\ op' = raised(partial)
       ELSE /\ Commit(created)
            /\ op' = [name |-> "create_season", outcome |-> "ok", new_season |-> new,
                      copy_from_season |-> copy_from_season,
                      pre |-> school_participations]

(***************************************************************************)
(* Specification SpecSeason: the D1 schools tab with its add-season dialog, *)
(* its participation cells and its add-school dialog.  The database starts  *)
(* with two schools and one or two seasons that do not overlap, each school *)
(* having one record per season.                                            *)
(***************************************************************************)
\* AUTOINCREMENT never reuses a participation_id; a season is created only
\* while the last id given out is below this bound.
MaxParticipationId == 7
\* The most overlaps a failing call resolves before its statement raises.
MaxFailPoint == 1

\* The years of the add-season dialog's pickers that the model takes.
MaxSeasonSpan == 3
SeasonYears == BaseYear..(BaseYear + MaxSeasonSpan)
SeasonChoices ==
    {season \in {Season(s, e) : s \in SeasonYears, e \in SeasonYears \cup {None}} :
        WellFormed(season)}

NoOverlap(a, b) ==
    analyze_overlap_tab(a, b) = "NO_OVERLAP" /\ analyze_overlap_tab(b, a) = "NO_OVERLAP"

InitialSeasonSets ==
    {S \in SUBSET SeasonChoices :
        /\ Cardinality(S) \in 1..2
        /\ \A a, b \in S : a = b \/ NoOverlap(a, b)}

\* The flags of the school's record in the season: the two schools differ,
\* and so do a school's records in the first and in a later season.
InitialFlags(school_id, first) ==
    IF school_id = 1
    THEN (IF first THEN {"openweight_women"} ELSE {"openweight_women", "heavyweight_men"})
    ELSE (IF first THEN {"lightweight_men"} ELSE {})

RECURSIVE InitialParticipations(_, _, _)
InitialParticipations(t, seasons, i) ==
    IF i > Len(seasons) THEN t
    ELSE LET k == Len(seasons) + 1 - i         \* oldest season first
             t1 == InsertParticipation(t, 1, seasons[k], InitialFlags(1, i = 1))
             t2 == InsertParticipation(t1, 2, seasons[k], InitialFlags(2, i = 1))
         IN InitialParticipations(t2, seasons, i + 1)

SeasonTables(S) ==
    InitialParticipations(
        [EmptyTables EXCEPT
            !.schools = {School(1, NameA, NameA), School(2, NameB, NameB)},
            !.seq = [@ EXCEPT !.schools = 2]],
        CHOOSE l \in SeasonLists(S) : TRUE, 1)

\* in_transaction may be TRUE at the start: add_event leaves the transaction
\* of a failed INSERT open, with nothing uncommitted in it.
InitSeason ==
    /\ ParserIdle /\ OverlapIdle /\ ControlIdle
    /\ \E S \in InitialSeasonSets :
         /\ TablesAre(SeasonTables(S)) /\ committed = SeasonTables(S)
    /\ in_transaction \in BOOLEAN
    /\ school_cache = SchoolCacheOf(Tables)
    /\ crr_name_to_id_cache = CrrCacheOf(Tables)

\* AddSeasonDialog._create_season: the years picked, the copy source picked,
\* and the answer to the confirmation question.
CreateSeason ==
    /\ pc = "idle" /\ seq.school_participations < MaxParticipationId
    /\ \E start_int \in SeasonYears, end_int \in SeasonYears \cup {None} :
         LET new == Season(start_int, end_int)
         IN IF end_int # None /\ start_int >= end_int
            THEN /\ op' = [name |-> "create_season", outcome |-> "rejected"]
                 /\ UNCHANGED dbVars
            ELSE \E existing_seasons \in all_seasons_lists(Tables),
                    copy_from_season \in get_all_seasons(Tables) \cup {NoSeason} :
                   \/ /\ plan_overlap_resolution(new, existing_seasons, 1) # <<>>
                      /\ op' = [name |-> "create_season", outcome |-> "declined"]
                      /\ UNCHANGED dbVars
                   \/ \E fail_at \in {None} \cup (0..MaxFailPoint) :
                        create_season_with_overlap_resolution(
                            new, copy_from_season, existing_seasons, fail_at)
    /\ UNCHANGED <<parserVars, overlapVars, cacheVars, pc>>

NextSeason == CreateSeason

SpecSeason == InitSeason /\ [][NextSeason]_vars

\* The seasons of a participation table, and a school's records of a season.
SeasonsOf(sps) == {Season(sp.start_year, sp.end_year) : sp \in sps}
RecordsOf(sps, school_id, season) ==
    {sp \in sps : /\ sp.school_id = school_id
                  /\ sp.start_year = season.start_year
                  /\ sp.end_year = season.end_year}
CreatedSeason == op.name = "create_season" /\ op.outcome = "ok"

\* ---- C12 ----
\* C12 (as claimed): after a season is created, for every finite season of
\* the table before the call that the new season overlaps in part or lies
\* inside (OVERLAP_START, OVERLAP_END, EXISTING_CONTAINS_NEW), every academic
\* year that season covered and the new season does not cover is still
\* covered, for every school that had a record of it, by a record carrying
\* that record's flags.
C12_RemainderKept ==
    CreatedSeason =>
      \A existing \in SeasonsOf(op.pre) :
        (existing.end_year # None
           /\ analyze_overlap_tab(op.new_season, existing)
                \in {"OVERLAP_START", "OVERLAP_END", "EXISTING_CONTAINS_NEW"}) =>
          \A old \in op.pre, y \in SeasonYears :
            (Season(old.start_year, old.end_year) = existing
               /\ CoversYear(existing, y) /\ ~CoversYear(op.new_season, y)) =>
              \E sp \in school_participations :
                /\ sp.school_id = old.school_id /\ sp.flags = old.flags
                /\ CoversYear(Season(sp.start_year, sp.end_year), y)

\* ---- C13 ----
\* C13 (as claimed): in every state reached by creating seasons, every
\* record of school_participations has no end year or an end year greater
\* than its start year.
C13_SeasonsEndAfterStart ==
    \A sp \in school_participations : sp.end_year = None \/ sp.end_year > sp.start_year

\* ---- C14 ----
\* C14: in every state reached by creating seasons from a table of pairwise
\* non-overlapping seasons, analyze_overlap gives NO_OVERLAP for every two
\* distinct seasons of get_all_seasons in either argument order, and after a
\* successful call the created season is one of them.
C14_SeasonsStayDisjoint ==
    /\ \A a, b \in get_all_seasons(Tables) : a = b \/ NoOverlap(a, b)
    /\ CreatedSeason => op.new_season \in get_all_seasons(Tables)

\* A season was created that overlapped a season of the table, and the
\* table holds three seasons afterwards.
C14_Witness ==
    /\ CreatedSeason
    /\ \E s \in SeasonsOf(op.pre) : analyze_overlap_tab(op.new_season, s) # "NO_OVERLAP"
    /\ Cardinality(get_all_seasons(Tables)) = 3

C17_CopyReadBeforeDeletion ==
    (CreatedSeason /\ op.copy_from_season # NoSeason
       /\ analyze_overlap_tab(op.new_season, op.copy_from_season) # "NO_OVERLAP") =>
      \A sc \in schools :
        LET source == RecordsOf(op.pre, sc.school_id, op.copy_from_season)
            copies == RecordsOf(school_participations, sc.school_id, op.new_season)
        IN /\ copies # {}
           /\ {sp.flags : sp \in copies} =
                IF source = {} THEN {{}} ELSE {sp.flags : sp \in source}

\* The season replaced by an exact match was also the copy source, and the
\* first school's new record has a flag.
C17_Witness ==
    /\ CreatedSeason /\ op.copy_from_season = op.new_season
    /\ op.new_season \in SeasonsOf(op.pre)
    /\ \E sp \in RecordsOf(school_participations, 1, op.new_season) : sp.flags # {}

\* ---- C18 ----
\* C18: after a create_season_with_overlap_resolution call that raised, no
\* transaction is open and school_participations is the table of before the
\* call.
C18_FailureRollsBack ==
    (op.name = "create_season" /\ op.outcome = "error") =>
        /\ school_participations = op.pre
        /\ ~in_transaction
        /\ Tables = committed

\* A call raised after it had deleted or trimmed a season.
C18_Witness ==
    /\ op.name = "create_season" /\ op.outcome = "error"
    /\ op.changed
    /\ school_participations = op.pre

\* The same for a copy source that ends after it starts: such a source is
\* copied faithfully.
C17_WellFormedSourceCopied ==
    (CreatedSeason /\ WellFormed(op.copy_from_season)) => C17_CopyReadBeforeDeletion

(***************************************************************************)
(* Specification SpecD1: season creation, participation toggles and school  *)
(* additions on the D1 schools tab, from an initialised database: one       *)
(* school with a team and its open-ended participation record.              *)
(***************************************************************************)
\* populate_initial_school_participations: a record from the current year
\* on, with no end, for each school that has a team.
D1Tables(current_year) ==
    InsertParticipation(
        [EmptyTables EXCEPT
            !.schools = {School(1, NameA, NameA)},
            !.teams = {[team_id |-> 1, school_id |-> 1, category |-> "W/OW"]},
            !.seq = [@ EXCEPT !.schools = 1, !.teams = 1]],
        1, Season(current_year, None), {"openweight_women"})

InitD1 ==
    /\ ParserIdle /\ OverlapIdle /\ ControlIdle
    /\ \E current_year \in SeasonYears :
         /\ TablesAre(D1Tables(current_year)) /\ committed = D1Tables(current_year)
    /\ in_transaction = FALSE
    /\ school_cache = SchoolCacheOf(Tables)
    /\ crr_name_to_id_cache = CrrCacheOf(Tables)

\* The participation columns clicked; an operation of the tab is started
\* only while the last participation_id given out is below the bound.
D1Columns == {"openweight_women"}
MaxD1ParticipationId == 4

\* _toggle_participation on a cell of one of the columns.
ToggleCell ==
    /\ pc = "idle" /\ seq.school_participations < MaxD1ParticipationId
    /\ \E sc \in schools, column_key \in D1Columns, season \in get_all_seasons(Tables) :
         LET current_value == CellValue(Tables, sc.school_id, column_key, season)
             new_value == IF current_value = "Yes" THEN "No" ELSE "Yes"
             school_id == CacheGet(crr_name_to_id_cache, sc.crr_name)
         IN IF school_id = None \/ school_id = 0
            THEN /\ op' = [name |-> "toggle_participation", outcome |-> "error"]
                 /\ UNCHANGED dbVars
            ELSE /\ Commit(update_school_participation_by_id(
                              Tables, school_id, column_key, new_value = "Yes",
                              display_name(season)))
                 /\ op' = [name |-> "toggle_participation", outcome |-> "ok"]
    /\ UNCHANGED <<parserVars, overlapVars, cacheVars, pc>>

\* The add-season dialog and the add-school dialog, opened from the tab.
D1CreateSeason == seq.school_participations < MaxD1ParticipationId /\ CreateSeason
D1AddSchool == seq.school_participations < MaxD1ParticipationId /\ DialogAddSchool

NextD1 == D1CreateSeason \/ ToggleCell \/ D1AddSchool

SpecD1 == InitD1 /\ [][NextD1]_vars

\* ---- C15 ----
\* C15 (as claimed): in every state reached by season creations,
\* participation toggles and school additions, no school has two records
\* with the same season start year.
C15_OneRecordPerSchoolAndStartYear ==
    \A x, y \in school_participations :
        (x.school_id = y.school_id /\ x.start_year = y.start_year)
            => x.participation_id = y.participation_id

(***************************************************************************)
(* Specification SpecSubmit: _submit_results with the text of the time      *)
(* boxes.  The database starts with two schools, their teams, one regatta   *)
(* and one event; schools can be deleted on the D1 schools tab while the    *)
(* entries tab keeps the school choices it loaded.                          *)
(***************************************************************************)
\* TimeEntry.get_seconds: 0.0 for an empty box and for a text on which
\* parse_time_input raises ValueError.  The model counts in thousandths of
\* a second, so that the float of the source is an integer.
get_seconds(time_text) ==
    LET t == Strip(time_text)
        p == parse_time_input(t)
    IN IF t = <<>> THEN 0
       ELSE IF p = ValueError THEN 0
       ELSE p.minutes * 60000 + p.seconds * 1000 + p.milliseconds

\* The loop over entry_rows: the rows with a school, each with its position
\* in the form and, when its time box is not empty, the seconds get_seconds
\* returns (get_seconds raises no ValueError, so the except clause of
\* lines 686-688 is never entered).
RECURSIVE CollectTextEntries(_, _)
CollectTextEntries(rows, i) ==
    IF i > Len(rows) THEN <<>>
    ELSE IF Strip(rows[i].school) = <<>> THEN CollectTextEntries(rows, i + 1)
    ELSE <<[position |-> i, school |-> Strip(rows[i].school),
            time_seconds |-> IF Strip(rows[i].time_text) # <<>>
                             THEN get_seconds(rows[i].time_text) ELSE None]>>
            \o CollectTextEntries(rows, i + 1)

\* Entries stored by the model's submissions, and rows of the form.
MaxSubmitEntries == 2
MaxSubmitRows == 2

SubmitSchools == {<<>>, NameA, NameB}
SubmitTimeTexts == {<<>>, <<"1">>, <<"a">>}
TextRows == [school : SubmitSchools, time_text : SubmitTimeTexts]
TextForms == UNION {[1..n -> TextRows] : n \in 1..MaxSubmitRows}

SubmitTables ==
    add_event(add_regatta(InitialTables, RaceDay), 1, "W/OW", None)

InitSubmit ==
    /\ ParserIdle /\ OverlapIdle /\ ControlIdle
    /\ TablesAre(SubmitTables) /\ committed = SubmitTables
    /\ in_transaction = FALSE
    /\ school_cache = SchoolCacheOf(SubmitTables)
    /\ crr_name_to_id_cache = CrrCacheOf(SubmitTables)

\* _submit_results for the current event.  op keeps the form, the outcome
\* and the entries and results as they were at the call.
SubmitForm ==
    /\ pc = "idle"
    /\ \E event_id \in 1..seq.events, rows \in TextForms :
         LET collected == CollectTextEntries(rows, 1)
             verdict == ValidateEntries(current_school_choices, collected)
             call == [name |-> "submit_results", event_id |-> event_id, rows |-> rows,
                      outcome |-> verdict,
                      pre |-> [entries |-> entries, results |-> results]]
         IN /\ seq.entries + Len(collected) <= MaxSubmitEntries
            /\ IF verdict # "ok"
               THEN /\ op' = call
                    /\ UNCHANGED <<dbVars>>
               ELSE LET s == SubmitToDatabase(Tables, committed, event_id, collected)
                    IN /\ SetTables(s.t)
                       /\ committed' = s.committed
                       /\ in_transaction' = s.in_transaction
                       /\ op' = [call EXCEPT !.outcome = s.outcome]
    /\ UNCHANGED <<parserVars, overlapVars, cacheVars, pc>>

NextSubmit == SubmitForm \/ DeleteSelectedSchools

SpecSubmit == InitSubmit /\ [][NextSubmit]_vars

\* The entries of an event and the results of those entries.
EntriesOf(es, event_id) == {e \in es : e.event_id = event_id}
ResultsOf(es, rs, event_id) ==
    {r \in rs : \E e \in EntriesOf(es, event_id) : e.entry_id = r.entry_id}

\* ---- C19 ----
\* C19 (as claimed): after a submission that passed the input checks and
\* then failed, the event's entries and results are those stored before the
\* submission: none is gone and no entered row has been stored.
C19_FailedSubmitKeepsStored ==
    (op.name = "submit_results" /\ op.outcome = "error") =>
        /\ EntriesOf(entries, op.event_id) = EntriesOf(op.pre.entries, op.event_id)
        /\ ResultsOf(entries, results, op.event_id)
             = ResultsOf(op.pre.entries, op.pre.results, op.event_id)

\* ---- C20 ----
\* The answers of the input checks of _submit_results.
SubmitRejections ==
    {"invalid school", "invalid time", "no school", "duplicate schools", "time order"}

\* C20 (as claimed): a submission with a row that has a school and a time
\* text that is not empty and on which parse_time_input raises is rejected
\* by an input check (the 'Invalid time' error, or the error of an earlier
\* check), and the entries and results are unchanged.
C20_InvalidTimeRejected ==
    (op.name = "submit_results"
       /\ \E i \in 1..Len(op.rows) :
            /\ Strip(op.rows[i].school) # <<>>
            /\ Strip(op.rows[i].time_text) # <<>>
            /\ parse_time_input(op.rows[i].time_text) = ValueError) =>
        /\ op.outcome \in SubmitRejections
        /\ entries = op.pre.entries /\ results = op.pre.results

\* ---- C21 ----
\* The results a successful submission left for its event.
SubmittedResults ==
    IF op.name = "submit_results" /\ op.outcome = "ok"
    THEN ResultsOf(entries, results, op.event_id) ELSE {}

\* C21: after a successful submission, of any two stored results of the
\* event the one with the lower position has an elapsed time and a margin
\* not greater than the other's, every margin is the elapsed time minus the
\* fastest elapsed time of the event, and the best-placed result has
\* margin 0.
C21_ResultsInFinishingOrder ==
    LET rs == SubmittedResults
        fastest == {f \in rs : \A o \in rs : f.elapsed_sec <= o.elapsed_sec}
        best_placed == {b \in rs : \A o \in rs : b.position <= o.position}
    IN /\ \A a, b \in rs :
            a.position < b.position =>
                /\ a.elapsed_sec <= b.elapsed_sec
                /\ a.margin_sec <= b.margin_sec
       /\ \A r \in rs, f \in fastest : r.margin_sec = r.elapsed_sec - f.elapsed_sec
       /\ \A b \in best_placed : b.margin_sec = 0

\* A successful submission left two results with different times, the
\* fastest of them later than time 0.
C21_Witness ==
    \E a, b \in SubmittedResults :
        /\ a.position < b.position
        /\ 0 < a.elapsed_sec /\ a.elapsed_sec < b.elapsed_sec

(***************************************************************************)
(* Specification SpecUpdate: update_school_field with database errors.  The *)
(* database starts with two schools; the connection may have been left in a *)
(* transaction by a handler that failed without rolling back.  A call can   *)
(* meet a database error in its UPDATE statement or in its commit.          *)
(***************************************************************************)
DatabaseErrors == {"none", "update", "commit"}

InitUpdate ==
    /\ ParserIdle /\ OverlapIdle /\ ControlIdle
    /\ TablesAre(InitialTables) /\ committed = InitialTables
    /\ in_transaction \in BOOLEAN
    /\ school_cache = SchoolCacheOf(InitialTables)
    /\ crr_name_to_id_cache = CrrCacheOf(InitialTables)

\* The except clause's "Restore cache state on error": the old CRR name is
\* put back when it is missing; nothing else is touched.
RestoreCrrCache(cache, school_id, field_name, old_school) ==
    IF field_name = "crr_name" /\ old_school.crr_name \notin DOMAIN cache
    THEN DictSet(cache, old_school.crr_name, school_id)
    ELSE cache

\* DatabaseManager.update_school_field(school_id, field_name, new_value),
\* where database_error names the statement the database refuses.  op keeps
\* the outcome, whether the listeners were notified and, for a call that
\* raised, the schools table and the two caches as they were at the call.
update_school_field(school_id, field_name, input, database_error) ==
    LET old_school == SchoolGet(school_cache, school_id)
        new_value == IF field_name = "crr_name" THEN Strip(input) ELSE input
        existing_id == CacheGet(crr_name_to_id_cache, new_value)
        t1 == UpdateSchoolRow(Tables, school_id, field_name, new_value)
        updated_crr_cache ==
            IF field_name = "crr_name"
            THEN DictSet(DictDel(crr_name_to_id_cache, old_school.crr_name),
                         new_value, school_id)
            ELSE crr_name_to_id_cache
        updated_school_cache ==
            DictSet(school_cache, school_id,
                    [old_school EXCEPT ![field_name] = new_value])
        raised == [name |-> "update_school_field", outcome |-> "error",
                   notified |-> FALSE,
                   pre |-> [schools |-> schools, school_cache |-> school_cache,
                            crr_name_to_id_cache |-> crr_name_to_id_cache]]
    IN IF field_name \notin FieldNames \/ old_school = NoSchool
       THEN /\ op' = raised /\ UNCHANGED <<dbVars, cacheVars>>
       ELSE IF field_name = "crr_name" /\
               (Strip(input) = <<>> \/ (existing_id # None /\ existing_id # school_id))
       THEN /\ op' = raised /\ UNCHANGED <<dbVars, cacheVars>>
       \* BEGIN TRANSACTION or the UPDATE raises: the caches are untouched yet
       ELSE IF in_transaction \/ database_error = "update" \/
               (field_name = "crr_name" /\ CrrNameTaken(Tables, new_value, school_id))
       THEN /\ Rollback
            /\ crr_name_to_id_cache' =
                 RestoreCrrCache(crr_name_to_id_cache, school_id, field_name, old_school)
            /\ UNCHANGED school_cache
            /\ op' = raised
       \* conn.commit() raises: both caches were updated before it
       ELSE IF database_error = "commit"
       THEN /\ Rollback
            /\ school_cache' = updated_school_cache
            /\ crr_name_to_id_cache' =
                 RestoreCrrCache(updated_crr_cache, school_id, field_name, old_school)
            /\ op' = raised
       ELSE /\ Commit(t1)
            /\ school_cache' = updated_school_cache
            /\ crr_name_to_id_cache' = updated_crr_cache
            /\ op' = [name |-> "update_school_field", outcome |-> "ok",
                      notified |-> TRUE]

UpdateSchool ==
    /\ pc = "idle"
    /\ \E school_id \in 1..MaxSchools, field_name \in FieldInputs,
          database_error \in DatabaseErrors :
       \E input \in IF field_name = "crr_name" THEN CrrInputs ELSE SchoolNameInputs :
         update_school_field(school_id, field_name, input, database_error)
    /\ UNCHANGED <<parserVars, overlapVars, pc>>

NextUpdate == UpdateSchool \/ AddSchool

SpecUpdate == InitUpdate /\ [][NextUpdate]_vars

\* ---- C22 ----
\* C22 (as claimed): when update_school_field has raised, the schools table,
\* school_cache and crr_name_to_id_cache are as they were before the call
\* and no listener was notified.
C22_FailedUpdateChangesNothing ==
    (op.name = "update_school_field" /\ op.outcome = "error") =>
        /\ schools = op.pre.schools
        /\ school_cache = op.pre.school_cache
        /\ crr_name_to_id_cache = op.pre.crr_name_to_id_cache
        /\ ~op.notified

\* The part of C22 the code keeps: a call that raised left the schools
\* table as it was and notified no listener.
C22_FailedUpdateKeepsTable ==
    (op.name = "update_school_field" /\ op.outcome = "error") =>
        schools = op.pre.schools /\ ~op.notified

====
